---------------------------- MODULE Spec2Model ----------------------------
(***************************************************************************)
(* Stelliberty native control plane: the Supervisor of the Core process    *)
(* (direct process manager of the hub, ClashManager of the privileged      *)
(* service), the service's heartbeat monitor, and the hub's pooled IPC     *)
(* transport.                                                              *)
(*                                                                         *)
(* Time is counted in seconds and advances in steps of at most TimeStep,   *)
(* never past the instant a timer is due.  A timer that is due fires       *)
(* before time advances further, unless the host is suspended (HostSleep), *)
(* which makes the clock jump.                                             *)
(***************************************************************************)
EXTENDS Integers, Sequences, FiniteSets, Bags, TLC

(***************************************************************************)
(* Bounds of the model.                                                    *)
(***************************************************************************)
MaxSpawn == 2
\* seconds per step of the clock
TimeStep == 10
\* horizon of the clock, in steps
MaxSteps == 14
\* one-shot requests in progress at a time
MaxTasks == 1
\* connection ids a WebSocketClient hands out
MaxConnId == 1
\* spawned cleanup tasks waiting to run
MaxCleanup == 1
\* callers issuing a request at the same moment (SpecBurst)
Burst == 31
\* request ids the GUI issues
MaxReq == 3
\* Install requests the hub handles at the same time
MaxInst == 2
\* releases of the application, each bundling its own service binary
MaxRelease == 2
MaxDocLen == 2
MaxConns == 2
MaxFrames == 2
MaxLogLines == 2
LogCapacity == 1
MaxCodeDigits == 2
MaxIter == 3
MaxRefs == 2
MaxGroups == 2
MaxProxies == 2

(***************************************************************************)
(* Program constants.                                                      *)
(***************************************************************************)
\* runner.rs: const HEARTBEAT_TIMEOUT: Duration = Duration::from_secs(70)
HEARTBEAT_TIMEOUT == 70
\* runner.rs: const CHECK_INTERVAL: Duration = Duration::from_secs(30)
CHECK_INTERVAL == 30
\* runner.rs: if check_elapsed > Duration::from_secs(60)
SLEEP_WAKE_THRESHOLD == 60
\* handlers.rs: const MAX_RETRIES: usize = 2
MAX_RETRIES == 2
\* handlers.rs: const MAX_POOL_SIZE: usize = 30
MAX_POOL_SIZE == 30
\* handlers.rs: const IDLE_TIMEOUT_MS: u64 = 35000
IDLE_TIMEOUT_MS == 35000
\* handlers.rs: const MAX_CONCURRENT_CONNECTIONS: usize = 20
MAX_CONCURRENT_CONNECTIONS == 20
\* handlers.rs: tokio::time::interval(Duration::from_secs(30))
HEALTH_CHECK_INTERVAL == 30
\* handlers.rs: const MAX_CONNECT_RETRIES: usize = 3
MAX_CONNECT_RETRIES == 3
\* process_manager.rs: Duration::from_secs(5), the wait of the windows stop
STOP_WAIT == 5

None == 0
Pids == 1..MaxSpawn
NoTime == -1
\* request_id values of the GUI's one-shot requests
ReqIds == 1..MaxReq
\* the HTTP methods of the one-shot request signals modelled
Methods == {"GET", "PUT", "PATCH"}

VARIABLES
    now,              \* the host's monotonic clock, seconds
    mode,             \* the GUI's configured mode: "Direct" | "Service" (decides which handlers it calls)
    platform,         \* "unix" | "windows": the build (cfg) the hub and the service were compiled for
    proc,             \* the OS process table of Core processes: pid -> "none" | "running" | "exited"
    app,              \* the hub application: "running" | "exited"
    PROCESS_MANAGER,  \* hub, direct mode: Mutex<Option<ClashProcess>>, None or the child's pid
    child,            \* service: ClashManager.child, None or the child's pid
    start_time,       \* service: ClashManager.start_time, NoTime or an instant
    runner,           \* how the service binary runs: "service" (SCM / systemd) | "console" (launchd, console)
    svc,              \* the service process: "up" | "stopping" | "down"
    last_heartbeat,   \* service: Arc<RwLock<Instant>>
    last_check_time,  \* heartbeat monitor: local last_check_time (run_service), the instant of its last wake-up
    wake,             \* heartbeat monitor: the instant its current sleep(CHECK_INTERVAL) ends
    monPc,            \* heartbeat monitor: "sleep" | "stop" | "reset" | "done"
    reply,            \* the last result delivered to the caller (GUI)
    pool,             \* hub: IPC_CONNECTION_POOL, a deque of [last_used, core]
    tasks,            \* hub: the one-shot requests in progress, a bag of [pc, attempt, ctry, conn]
    permits,          \* hub: free permits of CONNECTION_SEMAPHORE
    lastHc,           \* hub: the instant of the last health-check tick that was processed
    WS_CLIENT,        \* hub: RwLock<Option<WebSocketClient>>
    CONNECTION_ID,    \* hub: TRAFFIC_CONNECTION_ID / LOG_CONNECTION_ID, kind -> None or an id
    wsPc,             \* hub: per kind, the Start handler's place: "idle" | "connecting"
    wsId,             \* hub: per kind, the connection id the connect in progress allocated
    wsSpawn,          \* hub: per kind, the receive task the connect in progress has spawned
    cleanupTasks,     \* hub: spawned cleanup_all_network_resources tasks that have not run yet
    bundled,          \* the service binary shipped with the application: [size, mtime]
    private,          \* the service binary in the private directory: NoFile or [size, mtime]
    registered,       \* the service is registered with the OS (SCM entry / systemd unit file)
    inst,             \* per Install request: the hub's handler and the `install` command it runs
    uninst,           \* the Uninstall request: the hub's handler and the `uninstall` command it runs
    cfgJob,           \* hub: the call of a configuration function in progress: [fn, input, pc, out]
    srvConn,          \* service IPC server: per accepted connection, its handle_client task
    logLines,         \* service logger: the number of log lines broadcast so far
    stopCall,         \* hub, direct mode: the ClashProcess::stop in progress: [pc, pid, since]
    lockTasks,        \* the locks each task holds and its place in its locking sequence
    hist              \* history (ghost) record used by the properties only

envVars == <<mode, platform, runner>>
mgrVars == <<child, start_time>>
monVars == <<last_heartbeat, last_check_time, wake, monPc>>
poolVars == <<pool, tasks, permits, lastHc>>
wsVars == <<WS_CLIENT, CONNECTION_ID, wsPc, wsId, wsSpawn>>
instVars == <<bundled, private, registered, inst, uninst>>
auxVars == <<cfgJob, srvConn, logLines, stopCall, lockTasks>>
vars == <<now, mode, platform, proc, app, PROCESS_MANAGER, child, start_time, runner, svc,
          last_heartbeat, last_check_time, wake, monPc, reply, pool, tasks, permits,
          lastHc, WS_CLIENT, CONNECTION_ID, wsPc, wsId, wsSpawn, cleanupTasks, bundled, private,
          registered, inst, uninst, cfgJob, srvConn, logLines, stopCall, lockTasks, hist>>

NoReply == [op |-> "none", ok |-> TRUE, err |-> "", pid |-> None]
Result(op, ok, err, pid) == [op |-> op, ok |-> ok, err |-> err, pid |-> pid]

(***************************************************************************)
(* The OS process table.                                                   *)
(***************************************************************************)
Alive == {p \in Pids : proc[p] = "running"}
Unused == {p \in Pids : proc[p] = "none"}
\* Command::spawn / CreateProcessW: the new child gets the next free pid
NewPid == CHOOSE p \in Unused : \A q \in Unused : p <= q

(***************************************************************************)
(* Hub, direct mode: process_manager.rs                                    *)
(***************************************************************************)
\* What ClashProcess::stop can observe of the OS.
\* unix: SIGTERM, then child.wait(): the child has exited, or wait() fails.
\* windows: the Job handle is closed, then WaitForSingleObject(5 s): the
\* process has exited, or the wait times out with the process still there.
DirectStopOutcomes == IF platform = "unix" THEN {"exited", "wait_err"}
                                           ELSE {"exited", "timeout"}

\* ClashProcess::stop(self): the process table afterwards and the Result
ClashProcess_stop(p, outcome) ==
    [proc |-> IF outcome = "exited" THEN [proc EXCEPT ![p] = "exited"] ELSE proc,
     ok   |-> outcome # "wait_err"]

\* StartClashProcess::handle
StartClashProcess_handle(spawnOk) ==
    /\ app = "running" /\ mode = "Direct"
    /\ IF PROCESS_MANAGER # None
         THEN /\ reply' = Result("start", FALSE, "AlreadyRunning", None)
              /\ UNCHANGED <<proc, PROCESS_MANAGER>>
         ELSE IF spawnOk
           THEN /\ Unused # {}
                /\ proc' = [proc EXCEPT ![NewPid] = "running"]
                /\ PROCESS_MANAGER' = NewPid
                /\ reply' = Result("start", TRUE, "", NewPid)
           ELSE /\ reply' = Result("start", FALSE, "SpawnFailed", None)
                /\ UNCHANGED <<proc, PROCESS_MANAGER>>
    /\ UNCHANGED <<auxVars, instVars, now, envVars, app, mgrVars, svc, monVars, poolVars, wsVars, cleanupTasks, hist>>

\* StopClashProcess::handle answering a stop without a process with an error
StopClashProcess_handle_strict(outcome) ==
    /\ app = "running" /\ mode = "Direct"
    /\ PROCESS_MANAGER' = None
    /\ IF PROCESS_MANAGER # None
         THEN LET r == ClashProcess_stop(PROCESS_MANAGER, outcome) IN
              /\ proc' = r.proc
              /\ reply' = Result("stop", r.ok, IF r.ok THEN "" ELSE "StopFailed", None)
         ELSE /\ reply' = Result("stop", FALSE, "NotRunning", None)
              /\ UNCHANGED proc
    /\ UNCHANGED <<auxVars, instVars, now, envVars, app, mgrVars, svc, monVars, poolVars, wsVars, cleanupTasks, hist>>

\* StopClashProcess::handle
StopClashProcess_handle(outcome) ==
    /\ app = "running" /\ mode = "Direct"
    /\ PROCESS_MANAGER' = None
    /\ IF PROCESS_MANAGER # None
         THEN LET r == ClashProcess_stop(PROCESS_MANAGER, outcome) IN
              /\ proc' = r.proc
              /\ reply' = Result("stop", r.ok, IF r.ok THEN "" ELSE "StopFailed", None)
         ELSE /\ reply' = Result("stop", TRUE, "", None)
              /\ UNCHANGED proc
    /\ UNCHANGED <<auxVars, instVars, now, envVars, app, mgrVars, svc, monVars, poolVars, wsVars, cleanupTasks, hist>>

\* cleanup(): called when the application shuts down; the application's
\* tasks end with it
cleanup(outcome) ==
    /\ app = "running"
    /\ app' = "exited"
    /\ PROCESS_MANAGER' = None
    /\ proc' = IF PROCESS_MANAGER # None
                 THEN ClashProcess_stop(PROCESS_MANAGER, outcome).proc
                 ELSE proc
    /\ UNCHANGED <<auxVars, instVars, now, envVars, mgrVars, svc, monVars, reply, poolVars, wsVars, cleanupTasks, hist>>

\* cleanup_process_manager(): manager.take() and nothing else; the taken
\* ClashProcess is dropped, which neither signals nor waits for the child
cleanup_process_manager ==
    /\ app = "running"
    /\ PROCESS_MANAGER # None
    /\ PROCESS_MANAGER' = None
    /\ hist' = [hist EXCEPT !.pure = FALSE]
    /\ UNCHANGED <<auxVars, instVars, now, envVars, proc, app, mgrVars, svc, monVars, reply, poolVars, wsVars, cleanupTasks>>

(***************************************************************************)
(* Service: clash/manager.rs                                               *)
(***************************************************************************)
\* ClashManager::is_running on the state (c, st, pr): try_wait() on the
\* child; tw = "err" is try_wait failing
is_running(c, st, pr, tw) ==
    IF c = None
      THEN [running |-> FALSE, child |-> None, start_time |-> st]
      ELSE IF tw = "ok" /\ pr[c] = "running"
             THEN [running |-> TRUE, child |-> c, start_time |-> st]
             ELSE [running |-> FALSE, child |-> None, start_time |-> NoTime]

\* ClashManager::stop on the state (c, st, pr): child.take(), child.kill(), the
\* wait of at most 3 s, and on windows taskkill /F when kill or the wait fail.
\* killOk: child.kill() succeeds (the process is then killed);
\* tkOk: taskkill succeeds.
ClashManager_stop(c, st, pr, killOk, tkOk) ==
    IF c = None
      THEN [ok |-> TRUE, child |-> None, start_time |-> st, proc |-> pr]
      ELSE IF killOk
        THEN [ok |-> TRUE, child |-> None, start_time |-> NoTime,
              proc |-> [pr EXCEPT ![c] = "exited"]]
        ELSE IF platform = "windows"
          THEN [ok |-> TRUE, child |-> None, start_time |-> NoTime,
                proc |-> IF tkOk THEN [pr EXCEPT ![c] = "exited"] ELSE pr]
          ELSE [ok |-> FALSE, child |-> None, start_time |-> st, proc |-> pr]

\* ClashManager::cleanup_orphan_processes: every process whose image is the
\* Core's is force-killed; orphanOk = FALSE is pgrep / tasklist or the kills failing
cleanup_orphan_processes(pr, orphanOk) ==
    IF orphanOk THEN [p \in Pids |-> IF pr[p] = "running" THEN "exited" ELSE pr[p]]
                ELSE pr

\* ClashManager::start; the result and the manager's state afterwards
ClashManager_start(tw, killOk, tkOk, orphanOk, pathsOk, spawnOk) ==
    LET r == is_running(child, start_time, proc, tw)
        s == IF r.running
               THEN ClashManager_stop(r.child, r.start_time, proc, killOk, tkOk)
               ELSE [ok |-> TRUE, child |-> r.child, start_time |-> r.start_time, proc |-> proc]
        pr == cleanup_orphan_processes(s.proc, orphanOk)
    IN  IF ~s.ok
          THEN [ok |-> FALSE, err |-> "StopFailed", child |-> s.child,
                start_time |-> s.start_time, proc |-> s.proc]
          ELSE IF ~pathsOk
            THEN [ok |-> FALSE, err |-> "FileMissing", child |-> s.child,
                  start_time |-> s.start_time, proc |-> pr]
            ELSE IF ~spawnOk
              THEN [ok |-> FALSE, err |-> "SpawnFailed", child |-> s.child,
                    start_time |-> s.start_time, proc |-> pr]
              ELSE [ok |-> TRUE, err |-> "", child |-> NewPid, start_time |-> now,
                    proc |-> [pr EXCEPT ![NewPid] = "running"]]

\* ClashManager::get_status on the state (c, st, pr)
get_status(c, st, pr, tw) ==
    LET r == is_running(c, st, pr, tw) IN
    [is_running |-> r.running, pid |-> IF r.running THEN r.child ELSE None,
     child |-> r.child, start_time |-> r.start_time]

(***************************************************************************)
(* Hub, service mode (clash/service.rs) with the service's command handler *)
(* (service/handler.rs): a command is one round trip over the service's    *)
(* IPC endpoint; the handler holds the manager's write lock throughout.    *)
(***************************************************************************)
\* StartClash::handle -> ServiceManager::start_clash: IpcCommand::StartClash
\* (manager.start) and, on Success, IpcCommand::GetStatus for the pid
StartClash_handle(tw, killOk, tkOk, orphanOk, pathsOk, spawnOk, tw2) ==
    /\ app = "running" /\ mode = "Service"
    /\ IF svc # "up"
         THEN /\ reply' = Result("start", FALSE, "ServiceUnavailable", None)
              /\ UNCHANGED <<proc, child, start_time, hist>>
         ELSE LET r == ClashManager_start(tw, killOk, tkOk, orphanOk, pathsOk, spawnOk)
                  st == get_status(r.child, r.start_time, r.proc, tw2)
              IN  /\ Unused # {}
                  /\ proc' = r.proc
                  /\ child' = IF r.ok THEN st.child ELSE r.child
                  /\ start_time' = IF r.ok THEN st.start_time ELSE r.start_time
                  /\ reply' = Result("start", r.ok, r.err, IF r.ok THEN st.pid ELSE None)
                  /\ hist' = [hist EXCEPT !.q = IF r.ok /\ st.is_running THEN now ELSE NoTime,
                                          !.kills = 0, !.kfail = FALSE]
    /\ UNCHANGED <<auxVars, instVars, now, envVars, app, PROCESS_MANAGER, svc, monVars, poolVars, wsVars, cleanupTasks>>

\* StopClash::handle -> ServiceManager::stop_clash: IpcCommand::StopClash
\* (manager.stop); on Success the handler spawns cleanup_all_network_resources
\* and reports without waiting for it
StopClash_handle(killOk, tkOk) ==
    /\ app = "running" /\ mode = "Service"
    /\ IF svc # "up"
         THEN /\ reply' = Result("stop", FALSE, "ServiceUnavailable", None)
              /\ UNCHANGED <<proc, child, start_time, cleanupTasks, hist>>
         ELSE LET r == ClashManager_stop(child, start_time, proc, killOk, tkOk) IN
              /\ proc' = r.proc
              /\ child' = r.child
              /\ start_time' = r.start_time
              /\ reply' = Result("stop", r.ok, IF r.ok THEN "" ELSE "StopFailed", None)
              /\ cleanupTasks' = IF r.ok /\ cleanupTasks < MaxCleanup
                                   THEN cleanupTasks + 1 ELSE cleanupTasks
              /\ hist' = [hist EXCEPT !.q = NoTime]
    /\ UNCHANGED <<auxVars, instVars, now, envVars, app, PROCESS_MANAGER, svc, monVars, poolVars, wsVars>>

\* IpcCommand::GetStatus -> manager.get_status
GetStatus_handle(tw) ==
    /\ app = "running" /\ mode = "Service" /\ svc = "up"
    /\ LET r == get_status(child, start_time, proc, tw) IN
       /\ child' = r.child
       /\ start_time' = r.start_time
       /\ reply' = Result("status", r.is_running, "", r.pid)
       /\ hist' = [hist EXCEPT !.q = IF r.child = child THEN hist.q ELSE NoTime]
    /\ UNCHANGED <<auxVars, instVars, now, envVars, proc, app, PROCESS_MANAGER, svc, monVars, poolVars, wsVars, cleanupTasks>>

(***************************************************************************)
(* Environment: a Core process exits on its own.                           *)
(***************************************************************************)
CoreExit ==
    /\ \E p \in Alive : proc' = [proc EXCEPT ![p] = "exited"]
    /\ hist' = [hist EXCEPT !.q = NoTime]
    /\ UNCHANGED <<auxVars, instVars, now, envVars, app, PROCESS_MANAGER, mgrVars, svc, monVars, reply, poolVars, wsVars, cleanupTasks>>

(***************************************************************************)
(* Hub, one-shot requests over the connection pool: clash/network/handlers.rs *)
(***************************************************************************)
\* request_id 0 and method GET stand for the requests of the load
\* specifications, whose responses the history does not keep
NewTask == [pc |-> "acquire", attempt |-> 0, ctry |-> 0, conn |-> None, id |-> 0, method |-> "GET"]
Move(t, u) == tasks' = (tasks (-) SetToBag({t})) (+) SetToBag({u})
Finish(t) == tasks' = tasks (-) SetToBag({t})

\* IpcResponse with no signal sent on the error paths
IpcResponse_silent_on_error(t, ok, err) ==
    hist' = IF t.id = 0 \/ ~ok THEN hist
            ELSE [hist EXCEPT !.resp = @ (+) SetToBag({[request_id |-> t.id,
                                                         is_successful |-> ok,
                                                         error_message |-> err]})]

\* IpcResponse { request_id, is_successful, error_message, .. }.send_signal_to_dart()
IpcResponse(t, ok, err) ==
    hist' = IF t.id = 0 THEN hist
            ELSE [hist EXCEPT !.resp = @ (+) SetToBag({[request_id |-> t.id,
                                                         is_successful |-> ok,
                                                         error_message |-> err]})]

\* the requests holding the permit of CONFIG_UPDATE_SEMAPHORE: the PUT tasks
\* past its acquire(), until they end
ConfigPermitHolders == {t \in BagToSet(tasks) : t.method = "PUT" /\ t.pc # "config"}

\* Ipc{Get,Put,Patch}Request::handle: the GUI's request signal with request_id
\* id arrives and its task is spawned; a PUT first waits for CONFIG_UPDATE_SEMAPHORE
IpcRequest_handle(id, method) ==
    /\ app = "running"
    /\ id \in ReqIds \ hist.issued
    /\ tasks' = tasks (+) SetToBag({[NewTask EXCEPT !.id = id, !.method = method,
                                        !.pc = IF method = "PUT" THEN "config" ELSE "acquire"]})
    /\ hist' = [hist EXCEPT !.issued = @ \cup {id},
                            !.born[id] = IF Cardinality(Alive) = 1
                                           THEN CHOOSE p \in Alive : TRUE ELSE None]
    /\ UNCHANGED <<auxVars, instVars, now, envVars, proc, app, PROCESS_MANAGER, mgrVars, svc, monVars, reply,
                   pool, permits, lastHc, wsVars, cleanupTasks>>

\* IpcPutRequest::handle: CONFIG_UPDATE_SEMAPHORE.acquire() returns the one
\* permit (the semaphore is never closed, so its Err arm cannot be taken)
IpcPutRequest_acquire(t) ==
    /\ app = "running" /\ t.pc = "config"
    /\ ConfigPermitHolders = {}
    /\ Move(t, [t EXCEPT !.pc = "acquire"])
    /\ UNCHANGED <<auxVars, instVars, now, envVars, proc, app, PROCESS_MANAGER, mgrVars, svc, monVars, reply,
                   pool, permits, lastHc, wsVars, cleanupTasks, hist>>

\* PooledConnection::is_valid: the non-blocking probe reads EOF or fails on a
\* connection whose Core is gone and would block on a live idle one
is_valid(e) == proc[e.core] = "running"

\* Usable with the age test left out
Usable_any_age(e) == is_valid(e)

\* Usable with the probe of the connection left out
Usable_unprobed(e) == (now - e.last_used) * 1000 < IDLE_TIMEOUT_MS

\* pooled.last_used.elapsed() < Duration::from_millis(IDLE_TIMEOUT_MS) && pooled.is_valid()
Usable(e) == (now - e.last_used) * 1000 < IDLE_TIMEOUT_MS /\ is_valid(e)

\* a GET / PUT / PATCH / POST / DELETE listener receives a request and spawns
\* handle_ipc_request_with_retry
NewRequest(cap) ==
    /\ app = "running"
    /\ BagCardinality(tasks) < cap
    /\ tasks' = tasks (+) SetToBag({NewTask})
    /\ UNCHANGED <<auxVars, instVars, now, envVars, proc, app, PROCESS_MANAGER, mgrVars, svc, monVars, reply,
                   pool, permits, lastHc, wsVars, cleanupTasks, hist>>

\* acquire_connection going on to connect without taking a permit
acquire_connection_ungated(t) ==
    /\ app = "running" /\ t.pc = "acquire"
    /\ IF pool # <<>>
         THEN /\ pool' = Tail(pool)
              /\ IF Usable(Head(pool))
                   THEN Move(t, [t EXCEPT !.pc = "request", !.conn = Head(pool).core])
                   ELSE UNCHANGED tasks
         ELSE /\ UNCHANGED pool
              /\ Move(t, [t EXCEPT !.pc = "connect", !.ctry = 0])
    /\ hist' = IF t.id # 0 /\ pool # <<>> /\ ~is_valid(Head(pool))
               THEN [hist EXCEPT !.sawStale = @ \cup {t.id}] ELSE hist
    /\ UNCHANGED <<auxVars, instVars, now, envVars, proc, app, PROCESS_MANAGER, mgrVars, svc, monVars, reply,
                   permits, lastHc, wsVars, cleanupTasks>>

\* acquire_connection_with_retry!, one turn of its pool loop under the write
\* lock: pop_front and hand the connection out if usable, drop it otherwise;
\* on an empty pool go on to CONNECTION_SEMAPHORE.acquire()
acquire_connection(t) ==
    /\ app = "running" /\ t.pc = "acquire"
    /\ IF pool # <<>>
         THEN /\ pool' = Tail(pool)
              /\ IF Usable(Head(pool))
                   THEN Move(t, [t EXCEPT !.pc = "request", !.conn = Head(pool).core])
                   ELSE UNCHANGED tasks
              /\ UNCHANGED permits
         ELSE /\ UNCHANGED pool
              /\ IF permits > 0
                   THEN /\ permits' = permits - 1
                        /\ Move(t, [t EXCEPT !.pc = "connect", !.ctry = 0])
                   ELSE /\ UNCHANGED permits
                        /\ Move(t, [t EXCEPT !.pc = "permit"])
    /\ hist' = IF t.id # 0 /\ pool # <<>> /\ ~is_valid(Head(pool))
               THEN [hist EXCEPT !.sawStale = @ \cup {t.id}] ELSE hist
    /\ UNCHANGED <<auxVars, instVars, now, envVars, proc, app, PROCESS_MANAGER, mgrVars, svc, monVars, reply,
                   lastHc, wsVars, cleanupTasks>>

\* CONNECTION_SEMAPHORE.acquire() completing for a task that had to wait
acquire_permit(t) ==
    /\ app = "running" /\ t.pc = "permit"
    /\ permits > 0
    /\ permits' = permits - 1
    /\ Move(t, [t EXCEPT !.pc = "connect", !.ctry = 0])
    /\ UNCHANGED <<auxVars, instVars, now, envVars, proc, app, PROCESS_MANAGER, mgrVars, svc, monVars, reply,
                   pool, lastHc, wsVars, cleanupTasks, hist>>

\* one attempt of the connect loop, the permit held: success returns the
\* connection (the permit is dropped), a failure is retried up to
\* MAX_CONNECT_RETRIES attempts, the last failure ends the request with an error
connect_attempt(t) ==
    /\ app = "running" /\ t.pc = "connect"
    /\ IF Alive # {}
         THEN /\ \E p \in Alive : Move(t, [t EXCEPT !.pc = "request", !.conn = p])
              /\ permits' = permits + 1
         ELSE IF t.ctry < MAX_CONNECT_RETRIES - 1
           THEN /\ Move(t, [t EXCEPT !.ctry = t.ctry + 1])
                /\ UNCHANGED permits
           ELSE /\ Finish(t)
                /\ permits' = permits + 1
    /\ IF Alive = {} /\ t.ctry >= MAX_CONNECT_RETRIES - 1
         THEN IpcResponse(t, FALSE, "acquire")
         ELSE hist' = IF Alive # {} /\ hist.era = "old" THEN [hist EXCEPT !.era = "mixed"] ELSE hist
    /\ UNCHANGED <<auxVars, instVars, now, envVars, proc, app, PROCESS_MANAGER, mgrVars, svc, monVars, reply,
                   pool, lastHc, wsVars, cleanupTasks>>

\* release_connection with the test of the pool's size left out
release_connection_unbounded(c) == Append(pool, [last_used |-> now, core |-> c])

\* release_connection_impl!: under the write lock, push_back with
\* last_used = now unless the pool is full, in which case the connection is dropped
release_connection(c) ==
    IF Len(pool) < MAX_POOL_SIZE
      THEN Append(pool, [last_used |-> now, core |-> c])
      ELSE pool

\* handle_ipc_request_with_retry after acquire: the request completes on the
\* connection.  Ok: the connection is released and the response sent.  Err
\* (the Core behind the connection is gone): retried after a flush when
\* should_retry_on_error says so, else the error response is sent.
\* retryable: whether the error text is one should_retry_on_error matches
send_request(t, retryable) ==
    /\ app = "running" /\ t.pc = "request"
    /\ IF proc[t.conn] = "running"
         THEN /\ pool' = release_connection(t.conn)
              /\ Finish(t)
              /\ IpcResponse(t, TRUE, "")
         ELSE /\ UNCHANGED pool
              /\ IF t.attempt < MAX_RETRIES /\ retryable
                   THEN /\ Move(t, [t EXCEPT !.pc = "flush", !.conn = None])
                        /\ hist' = [hist EXCEPT !.era = IF @ = "none" THEN "old" ELSE "mixed"]
                   ELSE /\ Finish(t)
                        /\ IpcResponse(t, FALSE, "request")
    /\ UNCHANGED <<auxVars, instVars, now, envVars, proc, app, PROCESS_MANAGER, mgrVars, svc, monVars, reply,
                   permits, lastHc, wsVars, cleanupTasks>>

\* the retry path with the pool left as it is
retry_flush_keeping_pool(t) ==
    /\ app = "running" /\ t.pc = "flush"
    /\ UNCHANGED pool
    /\ Move(t, [t EXCEPT !.pc = "acquire", !.attempt = t.attempt + 1])
    /\ UNCHANGED <<auxVars, instVars, now, envVars, proc, app, PROCESS_MANAGER, mgrVars, svc, monVars, reply,
                   permits, lastHc, wsVars, cleanupTasks, hist>>

\* the retry path: cleanup_ipc_connection_pool(), then the next attempt
retry_flush(t) ==
    /\ app = "running" /\ t.pc = "flush"
    /\ pool' = <<>>
    /\ Move(t, [t EXCEPT !.pc = "acquire", !.attempt = t.attempt + 1])
    /\ UNCHANGED <<auxVars, instVars, now, envVars, proc, app, PROCESS_MANAGER, mgrVars, svc, monVars, reply,
                   permits, lastHc, wsVars, cleanupTasks, hist>>

\* the health-check task's ticks: every HEALTH_CHECK_INTERVAL from the
\* application's start, the immediate first tick skipped.  A tick on an empty
\* pool does nothing.
HealthDue ==
    /\ app = "running" /\ now > 0 /\ now % HEALTH_CHECK_INTERVAL = 0 /\ lastHc < now
    /\ pool # <<>>

\* the requests that take the pool's write lock in their next step
AtPoolLock == {t \in BagToSet(tasks) : t.pc \in {"acquire", "request", "flush"}}

\* a tick whose try_write() succeeds: retain the usable connections
health_check ==
    /\ HealthDue
    /\ pool' = SelectSeq(pool, Usable)
    /\ lastHc' = now
    /\ hist' = [hist EXCEPT !.hcDone = now,
                            !.hcExpired = \E i \in 1..Len(pool) :
                                             is_valid(pool[i]) /\ ~Usable(pool[i])]
    /\ UNCHANGED <<auxVars, instVars, now, envVars, proc, app, PROCESS_MANAGER, mgrVars, svc, monVars, reply,
                   tasks, permits, wsVars, cleanupTasks>>

\* a tick whose try_write() fails because a request holds the lock: the
\* round is skipped
health_check_busy ==
    /\ HealthDue
    /\ AtPoolLock # {}
    /\ lastHc' = now
    /\ UNCHANGED <<auxVars, instVars, now, envVars, proc, app, PROCESS_MANAGER, mgrVars, svc, monVars, reply,
                   pool, tasks, permits, wsVars, cleanupTasks, hist>>

(***************************************************************************)
(* Hub, streaming sessions: handlers.rs and molecules/clash_network/ws_client.rs *)
(***************************************************************************)
Kinds == {"traffic", "log"}
\* WS_CLIENT = None, and WebSocketClient::new
\* no receive task spawned by a connect in progress
NoSpawn == [core |-> None, state |-> "none"]
NoClient == [open |-> FALSE, next_connection_id |-> 1, connections |-> {}]
NewClient == [open |-> TRUE, next_connection_id |-> 1, connections |-> {}]

\* Start{Traffic,Log}Stream::handle_start up to the connect:
\* ensure_ws_client_initialized, then WebSocketClient::connect allocates the
\* connection id and starts connecting (WS_CLIENT's read lock is held);
\* cap bounds the ids a client hands out
StartStream_connect(k, cap) ==
    /\ app = "running" /\ wsPc[k] = "idle"
    /\ LET c == IF WS_CLIENT.open THEN WS_CLIENT ELSE NewClient IN
       /\ c.next_connection_id <= cap
       /\ wsId' = [wsId EXCEPT ![k] = c.next_connection_id]
       /\ WS_CLIENT' = [c EXCEPT !.next_connection_id = c.next_connection_id + 1]
    /\ wsPc' = [wsPc EXCEPT ![k] = "connecting"]
    /\ UNCHANGED wsSpawn
    /\ UNCHANGED <<auxVars, instVars, now, envVars, proc, app, PROCESS_MANAGER, mgrVars, svc, monVars, reply,
                   poolVars, CONNECTION_ID, cleanupTasks, hist>>

\* the connect and handshake complete: Ok spawns the receive task, inserts
\* its handle in the client's table and the handler stores the id; Err
\* leaves both alone.  These are the steps StartStream_spawn and
\* StartStream_insert taken together, the task still running at the insert.
StartStream_done(k) ==
    /\ app = "running" /\ wsPc[k] = "connecting"
    /\ IF Alive # {}
         THEN /\ \E p \in Alive :
                   WS_CLIENT' = [WS_CLIENT EXCEPT !.connections =
                                    @ \cup {[id |-> wsId[k], kind |-> k, core |-> p,
                                             task |-> "running"]}]
              /\ CONNECTION_ID' = [CONNECTION_ID EXCEPT ![k] = wsId[k]]
         ELSE UNCHANGED <<WS_CLIENT, CONNECTION_ID>>
    /\ wsPc' = [wsPc EXCEPT ![k] = "idle"]
    /\ wsId' = [wsId EXCEPT ![k] = None]
    /\ UNCHANGED <<auxVars, instVars, now, envVars, proc, app, PROCESS_MANAGER, mgrVars, svc, monVars, reply,
                   poolVars, wsSpawn, cleanupTasks, hist>>

\* WebSocketClient::connect, the connect and handshake complete: Ok spawns
\* the receive task of the session; Err returns, and the handler leaves the
\* table and the stored id alone
StartStream_spawn(k) ==
    /\ app = "running" /\ wsPc[k] = "connecting"
    /\ IF Alive # {}
         THEN /\ \E p \in Alive : wsSpawn' = [wsSpawn EXCEPT ![k] = [core |-> p, state |-> "running"]]
              /\ wsPc' = [wsPc EXCEPT ![k] = "spawned"]
              /\ UNCHANGED wsId
         ELSE /\ wsPc' = [wsPc EXCEPT ![k] = "idle"]
              /\ wsId' = [wsId EXCEPT ![k] = None]
              /\ UNCHANGED wsSpawn
    /\ UNCHANGED <<auxVars, instVars, now, envVars, proc, app, PROCESS_MANAGER, mgrVars, svc, monVars, reply,
                   poolVars, WS_CLIENT, CONNECTION_ID, cleanupTasks, hist>>

\* the spawned receive task finds its Core gone before connect has stored
\* its handle: the loop ends and conns.remove(&connection_id) finds no entry
SpawnedTaskEnd(k) ==
    /\ app = "running"
    /\ wsSpawn[k].state = "running" /\ proc[wsSpawn[k].core] # "running"
    /\ wsSpawn' = [wsSpawn EXCEPT ![k].state = "ended"]
    /\ WS_CLIENT' = [WS_CLIENT EXCEPT !.connections = {c \in @ : c.id # wsId[k]}]
    /\ UNCHANGED <<auxVars, instVars, now, envVars, proc, app, PROCESS_MANAGER, mgrVars, svc, monVars, reply,
                   poolVars, CONNECTION_ID, wsPc, wsId, cleanupTasks, hist>>

\* then connect stores the task's handle in the client's table under the
\* connection id and returns it, and the handler stores the id
StartStream_insert(k) ==
    /\ app = "running" /\ wsPc[k] = "spawned"
    /\ WS_CLIENT' = [WS_CLIENT EXCEPT !.connections =
                        @ \cup {[id |-> wsId[k], kind |-> k, core |-> wsSpawn[k].core,
                                 task |-> wsSpawn[k].state]}]
    /\ CONNECTION_ID' = [CONNECTION_ID EXCEPT ![k] = wsId[k]]
    /\ wsPc' = [wsPc EXCEPT ![k] = "idle"]
    /\ wsId' = [wsId EXCEPT ![k] = None]
    /\ wsSpawn' = [wsSpawn EXCEPT ![k] = NoSpawn]
    /\ UNCHANGED <<auxVars, instVars, now, envVars, proc, app, PROCESS_MANAGER, mgrVars, svc, monVars, reply,
                   poolVars, cleanupTasks, hist>>

\* the sessions of the client's table with connection id i
SessionsOf(i) == {c \in WS_CLIENT.connections : c.id = i}

\* StopStream handing the session's connection to the one-shot pool
\* instead of dropping it with the aborted task
StopStream_pooling(k) ==
    /\ app = "running"
    /\ CONNECTION_ID[k] # None
    /\ CONNECTION_ID' = [CONNECTION_ID EXCEPT ![k] = None]
    /\ WS_CLIENT' = [WS_CLIENT EXCEPT !.connections = {c \in @ : c.id # CONNECTION_ID[k]}]
    /\ pool' = IF SessionsOf(CONNECTION_ID[k]) # {}
                 THEN Append(pool, [last_used |-> now,
                                    core |-> (CHOOSE c \in SessionsOf(CONNECTION_ID[k]) : TRUE).core])
                 ELSE pool
    /\ hist' = [hist EXCEPT !.aborted = @ \/ SessionsOf(CONNECTION_ID[k]) # {}]
    /\ UNCHANGED <<auxVars, instVars, now, envVars, proc, app, PROCESS_MANAGER, mgrVars, svc, monVars, reply,
                   tasks, permits, lastHc, wsPc, wsId, wsSpawn, cleanupTasks>>

\* Stop{Traffic,Log}Stream::handle_stop: take the stored id and, if there is
\* one and a client, WebSocketClient::disconnect(id): the session's handle is
\* removed from the table and its task aborted, which drops the connection
StopStream(k) ==
    /\ app = "running"
    /\ CONNECTION_ID[k] # None
    /\ CONNECTION_ID' = [CONNECTION_ID EXCEPT ![k] = None]
    /\ WS_CLIENT' = [WS_CLIENT EXCEPT !.connections = {c \in @ : c.id # CONNECTION_ID[k]}]
    /\ hist' = [hist EXCEPT !.aborted = @ \/ SessionsOf(CONNECTION_ID[k]) # {}]
    /\ UNCHANGED <<auxVars, instVars, now, envVars, proc, app, PROCESS_MANAGER, mgrVars, svc, monVars, reply,
                   poolVars, wsPc, wsId, wsSpawn, cleanupTasks>>

\* the receive task of a session whose Core is gone: the read fails, the loop
\* ends and the task removes its entry from the table
StreamEnd ==
    /\ app = "running"
    /\ \E c \in WS_CLIENT.connections :
         /\ c.task = "running" /\ proc[c.core] # "running"
         /\ WS_CLIENT' = [WS_CLIENT EXCEPT !.connections = @ \ {c}]
    /\ UNCHANGED <<auxVars, instVars, now, envVars, proc, app, PROCESS_MANAGER, mgrVars, svc, monVars, reply,
                   poolVars, CONNECTION_ID, wsPc, wsId, wsSpawn, cleanupTasks, hist>>

\* the spawned cleanup task: cleanup_ws_client (WS_CLIENT's write lock, so no
\* connect is in progress; take the client and disconnect_all) and
\* cleanup_ipc_connection_pool
cleanup_all_network_resources ==
    /\ app = "running" /\ cleanupTasks > 0
    /\ \A k \in Kinds : wsPc[k] = "idle"
    /\ WS_CLIENT' = NoClient
    /\ pool' = <<>>
    /\ cleanupTasks' = cleanupTasks - 1
    /\ UNCHANGED <<auxVars, instVars, now, envVars, proc, app, PROCESS_MANAGER, mgrVars, svc, monVars, reply,
                   tasks, permits, lastHc, CONNECTION_ID, wsPc, wsId, wsSpawn, hist>>

(***************************************************************************)
(* Service: the Heartbeat command (service/handler.rs) and the heartbeat   *)
(* monitor (service/runner.rs: run_service and the Windows service main;   *)
(* lib.rs: run_console_mode)                                               *)
(***************************************************************************)
\* SendServiceHeartbeat::handle -> IpcCommand::Heartbeat:
\* *last_heartbeat.write().await = Instant::now()
Heartbeat ==
    /\ app = "running" /\ mode = "Service" /\ svc = "up"
    /\ last_heartbeat' = now
    /\ hist' = [hist EXCEPT !.q = IF child # None /\ proc[child] = "running" THEN now ELSE NoTime,
                            !.kills = 0, !.kfail = FALSE]
    /\ UNCHANGED <<auxVars, instVars, now, envVars, proc, app, PROCESS_MANAGER, mgrVars, svc, last_check_time,
                   wake, monPc, reply, poolVars, wsVars, cleanupTasks>>

\* the monitor's sleep(CHECK_INTERVAL) has ended
MonitorDue == svc = "up" /\ monPc = "sleep" /\ wake <= now

\* monitor_wake with the timeout compared against too long a span
monitor_wake_lax ==
    /\ MonitorDue /\ runner = "service"
    /\ last_check_time' = now
    /\ IF now - last_check_time > SLEEP_WAKE_THRESHOLD
         THEN /\ last_heartbeat' = now
              /\ wake' = now + CHECK_INTERVAL
              /\ UNCHANGED monPc
         ELSE IF now - last_heartbeat > HEARTBEAT_TIMEOUT + CHECK_INTERVAL
           THEN /\ monPc' = "stop"
                /\ UNCHANGED <<last_heartbeat, wake>>
           ELSE /\ wake' = now + CHECK_INTERVAL
                /\ UNCHANGED <<last_heartbeat, monPc>>
    /\ UNCHANGED <<auxVars, instVars, now, envVars, proc, app, PROCESS_MANAGER, mgrVars, svc, reply, poolVars,
                   wsVars, cleanupTasks, hist>>

\* run_service / Windows service: one wake-up of the monitor up to the
\* decision.  A gap of more than 60 s since the last wake-up is taken for a
\* host suspension: the heartbeat instant is reset and the check skipped.
monitor_wake ==
    /\ MonitorDue /\ runner = "service"
    /\ last_check_time' = now
    /\ IF now - last_check_time > SLEEP_WAKE_THRESHOLD
         THEN /\ last_heartbeat' = now
              /\ wake' = now + CHECK_INTERVAL
              /\ UNCHANGED monPc
         ELSE IF now - last_heartbeat > HEARTBEAT_TIMEOUT
           THEN /\ monPc' = "stop"
                /\ UNCHANGED <<last_heartbeat, wake>>
           ELSE /\ wake' = now + CHECK_INTERVAL
                /\ UNCHANGED <<last_heartbeat, monPc>>
    /\ UNCHANGED <<auxVars, instVars, now, envVars, proc, app, PROCESS_MANAGER, mgrVars, svc, reply, poolVars,
                   wsVars, cleanupTasks, hist>>

\* the ghost record of a stop the service performs on its own
NoteStop(r) ==
    [hist EXCEPT !.kills = IF child # None THEN @ + 1 ELSE @,
                 !.kfail = @ \/ (child # None /\ r.proc[child] = "running")]

\* after the timeout: clash_manager.write().await, manager.stop() (an error
\* is only logged)
monitor_stop(killOk, tkOk) ==
    /\ svc = "up" /\ monPc = "stop"
    /\ LET r == ClashManager_stop(child, start_time, proc, killOk, tkOk) IN
       /\ proc' = r.proc
       /\ child' = r.child
       /\ start_time' = r.start_time
       /\ hist' = NoteStop(r)
    /\ monPc' = "reset"
    /\ UNCHANGED <<auxVars, instVars, now, envVars, app, PROCESS_MANAGER, svc, last_heartbeat, last_check_time,
                   wake, reply, poolVars, wsVars, cleanupTasks>>

\* then *last_heartbeat.write().await = Instant::now(), and the next sleep
monitor_reset ==
    /\ svc = "up" /\ monPc = "reset"
    /\ last_heartbeat' = now
    /\ monPc' = "sleep"
    /\ wake' = now + CHECK_INTERVAL
    /\ UNCHANGED <<auxVars, instVars, now, envVars, proc, app, PROCESS_MANAGER, mgrVars, svc, last_check_time,
                   reply, poolVars, wsVars, cleanupTasks, hist>>

\* run_console_mode: one wake-up of its monitor.  On a timeout it sends the
\* shutdown signal and ends; it keeps no last_check_time.
console_monitor_wake ==
    /\ MonitorDue /\ runner = "console"
    /\ IF now - last_heartbeat > HEARTBEAT_TIMEOUT
         THEN /\ svc' = "stopping"
              /\ monPc' = "done"
              /\ UNCHANGED wake
         ELSE /\ wake' = now + CHECK_INTERVAL
              /\ UNCHANGED <<svc, monPc>>
    /\ UNCHANGED <<auxVars, instVars, now, envVars, proc, app, PROCESS_MANAGER, mgrVars, last_heartbeat,
                   last_check_time, reply, poolVars, wsVars, cleanupTasks, hist>>

\* run_console_mode after shutdown_rx.recv(): manager.stop() (an error is
\* only logged), the IPC server is aborted and the service process ends
console_shutdown(killOk, tkOk) ==
    /\ svc = "stopping"
    /\ LET r == ClashManager_stop(child, start_time, proc, killOk, tkOk) IN
       /\ proc' = r.proc
       /\ child' = r.child
       /\ start_time' = r.start_time
       /\ hist' = NoteStop(r)
    /\ svc' = "down"
    /\ UNCHANGED <<auxVars, instVars, now, envVars, app, PROCESS_MANAGER, monVars, reply, poolVars, wsVars,
                   cleanupTasks>>

(***************************************************************************)
(* Installing and uninstalling the service.  The hub's handlers            *)
(* (clash/service.rs) run the service binary's `install` / `uninstall`     *)
(* command (service/installer.rs) as a separate, elevated process.  Every  *)
(* Install signal is handled in a task of its own (clash.rs), and neither  *)
(* the hub nor the installer takes a lock.                                 *)
(***************************************************************************)
Installers == 1..MaxInst
NoFile == [size |-> 0, mtime |-> NoTime]
\* the service binary bundled with release r of the application
Release(r) == [size |-> r, mtime |-> 2 * r]
\* matched is history only: the binaries matched when the request was made
\* cmd: the command's place, at its end "exited" (status 0) or "failed"
IdleInst == [hub |-> "idle", cmd |-> "none", clash_was_running |-> FALSE, was_active |-> FALSE,
             matched |-> FALSE]
IdleUninst == [hub |-> "idle", cmd |-> "none"]
Ended == {"exited", "failed"}

\* check_service_needs_update: the private copy is missing, or the sizes
\* differ, or the bundled file is the more recently modified one
check_service_needs_update(current, priv) ==
    \/ priv = NoFile
    \/ current.size # priv.size
    \/ current.mtime > priv.mtime

\* std::fs::copy into the private directory: CopyFileExW keeps the source's
\* modification time, the unix copy stamps the moment of the copy
update_service_binary(current) ==
    [size |-> current.size,
     mtime |-> IF platform = "windows" THEN current.mtime ELSE current.mtime + 1]

\* the application is upgraded to its next release while no request of the
\* installer is in progress
AppUpgrade ==
    /\ \A i \in Installers : inst[i] = IdleInst
    /\ uninst = IdleUninst
    /\ bundled.size < MaxRelease
    /\ bundled' = Release(bundled.size + 1)
    /\ UNCHANGED <<auxVars, now, envVars, proc, app, PROCESS_MANAGER, mgrVars, svc, monVars, reply, poolVars,
                   wsVars, cleanupTasks, private, registered, inst, uninst, hist>>

\* the service process ends on the stop request of the OS: run_service
\* leaves its loop and calls manager.stop() before it returns
ServiceStopped ==
    LET r == ClashManager_stop(child, start_time, proc, TRUE, TRUE) IN
    /\ proc' = r.proc
    /\ child' = r.child
    /\ start_time' = r.start_time
    /\ svc' = "down"
    /\ UNCHANGED monVars
    /\ hist' = [hist EXCEPT !.q = NoTime]

\* the OS starts the service process: a fresh ClashManager and monitor
ServiceStarted ==
    /\ svc' = "up"
    /\ child' = None
    /\ start_time' = NoTime
    /\ last_heartbeat' = now
    /\ last_check_time' = now
    /\ wake' = now + CHECK_INTERVAL
    /\ monPc' = "sleep"
    /\ UNCHANGED <<auxVars, proc, hist>>

ServiceUntouched == UNCHANGED <<proc, mgrVars, svc, monVars, hist>>

\* the installed service was copied from the bundled binary
Matches == registered /\ ~check_service_needs_update(bundled, private)

\* InstallService::handle -> ServiceManager::install_service up to the
\* launch of the command: get_status() (IpcCommand::GetStatus when the
\* service answers), then the command is started with elevated rights
\* (elevOk = FALSE: the user declines, or the launch fails)
InstallService_handle(i, tw, elevOk) ==
    /\ app = "running"
    /\ inst[i].hub = "idle" /\ inst[i].cmd \in {"none"} \cup Ended
    /\ LET up == registered /\ svc = "up"
           st == get_status(child, start_time, proc, tw)
       IN  /\ child' = IF up THEN st.child ELSE child
           /\ start_time' = IF up THEN st.start_time ELSE start_time
           /\ hist' = [hist EXCEPT !.q = IF up /\ st.child # child THEN NoTime ELSE hist.q]
           /\ IF elevOk
                THEN /\ inst' = [inst EXCEPT ![i] = [hub |-> "waiting", cmd |-> "check",
                                                     clash_was_running |-> up /\ st.is_running,
                                                     was_active |-> FALSE, matched |-> Matches]]
                     /\ UNCHANGED reply
                ELSE /\ inst' = [inst EXCEPT ![i] = IdleInst]
                     /\ reply' = Result("install", FALSE, "Elevation", None)
    /\ UNCHANGED <<auxVars, now, envVars, proc, app, PROCESS_MANAGER, svc, monVars, poolVars, wsVars,
                   cleanupTasks, bundled, private, registered, uninst>>

\* installer::install_service, from its start to the decision: the service
\* exists and its binary is out of date (stop it first when it runs, then
\* copy); the service exists and is current (start it when it is stopped);
\* the service does not exist (first installation)
install_check(i) ==
    /\ inst[i].cmd = "check"
    /\ IF registered
         THEN IF check_service_needs_update(bundled, private)
                THEN /\ inst' = [inst EXCEPT ![i].was_active = (svc = "up"),
                                             ![i].cmd = IF svc = "up" THEN "stop" ELSE "copy"]
                     /\ ServiceUntouched
                ELSE /\ inst' = [inst EXCEPT ![i].cmd = "exited"]
                     /\ IF svc = "up" THEN ServiceUntouched ELSE ServiceStarted
         ELSE /\ inst' = [inst EXCEPT ![i].cmd = "first_copy"]
              /\ ServiceUntouched
    /\ UNCHANGED <<auxVars, now, envVars, app, PROCESS_MANAGER, reply, poolVars, wsVars, cleanupTasks,
                   bundled, private, registered, uninst>>

\* update path: service.stop() / systemctl stop and the wait for the stop
\* (stopOk = FALSE: the stop times out or systemctl fails, the command bails)
install_stop(i, stopOk) ==
    /\ inst[i].cmd = "stop"
    /\ IF stopOk
         THEN /\ inst' = [inst EXCEPT ![i].cmd = "copy"]
              /\ IF svc = "up" THEN ServiceStopped ELSE ServiceUntouched
         ELSE /\ inst' = [inst EXCEPT ![i].cmd = "failed", ![i].was_active = FALSE]
              /\ ServiceUntouched
    /\ UNCHANGED <<auxVars, now, envVars, app, PROCESS_MANAGER, reply, poolVars, wsVars, cleanupTasks,
                   bundled, private, registered, uninst>>

\* update_service_binary: the private copy is overwritten in place.  While
\* the service runs from that file the copy may be refused (copyOk = FALSE:
\* sharing violation / ETXTBSY, or any other I/O error) and the command bails
install_copy(i, copyOk) ==
    /\ inst[i].cmd \in {"copy", "first_copy"}
    /\ copyOk \/ svc = "up"
    /\ IF copyOk
         THEN /\ private' = update_service_binary(bundled)
              /\ inst' = [inst EXCEPT ![i].was_active = FALSE,
                                      ![i].cmd =
                            IF inst[i].cmd = "first_copy" THEN "register"
                            ELSE IF platform = "windows" \/ inst[i].was_active THEN "restart"
                            ELSE "exited"]
         ELSE /\ inst' = [inst EXCEPT ![i].cmd = "failed", ![i].was_active = FALSE]
              /\ UNCHANGED private
    /\ UNCHANGED <<auxVars, now, envVars, proc, app, PROCESS_MANAGER, mgrVars, svc, monVars, reply, poolVars,
                   wsVars, cleanupTasks, bundled, registered, uninst, hist>>

\* update path: service.start() / systemctl start after the copy
install_restart(i) ==
    /\ inst[i].cmd = "restart"
    /\ inst' = [inst EXCEPT ![i].cmd = "exited"]
    /\ IF svc = "up" THEN ServiceUntouched ELSE ServiceStarted
    /\ UNCHANGED <<auxVars, now, envVars, app, PROCESS_MANAGER, reply, poolVars, wsVars, cleanupTasks,
                   bundled, private, registered, uninst>>

\* first installation: create_service / the unit file is written and
\* enabled, then the service is started.  create_service fails when the
\* service exists by now; the unit file is simply written again.
install_register(i) ==
    /\ inst[i].cmd = "register"
    /\ IF registered /\ platform = "windows"
         THEN /\ inst' = [inst EXCEPT ![i].cmd = "failed"]
              /\ UNCHANGED registered
              /\ ServiceUntouched
         ELSE /\ inst' = [inst EXCEPT ![i].cmd = "exited"]
              /\ registered' = TRUE
              /\ IF svc = "up" THEN ServiceUntouched ELSE ServiceStarted
    /\ UNCHANGED <<auxVars, now, envVars, app, PROCESS_MANAGER, reply, poolVars, wsVars, cleanupTasks,
                   bundled, private, uninst>>

\* ServiceManager::install_service after the command.  unix: the handler
\* waits for the command's exit and reports its status.  windows:
\* run_elevated_command polls is_service_installed() for at most 4 s and
\* returns Ok whether or not the command is done; then, when the Core ran
\* before the installation, stop_clash() (an error is only logged).
InstallService_done(i) ==
    /\ inst[i].hub = "waiting"
    /\ IF platform = "windows"
         THEN /\ inst' = [inst EXCEPT ![i] = IF inst[i].cmd \in Ended THEN IdleInst
                                             ELSE [inst[i] EXCEPT !.hub = "idle",
                                                                  !.clash_was_running = FALSE]]
              /\ reply' = Result("install", TRUE, "", None)
              /\ IF inst[i].clash_was_running /\ svc = "up"
                   THEN LET r == ClashManager_stop(child, start_time, proc, TRUE, TRUE) IN
                        /\ proc' = r.proc
                        /\ child' = r.child
                        /\ start_time' = r.start_time
                        /\ hist' = [hist EXCEPT !.q = NoTime]
                   ELSE UNCHANGED <<proc, mgrVars, hist>>
         ELSE /\ inst[i].cmd \in Ended
              /\ inst' = [inst EXCEPT ![i] = IdleInst]
              /\ reply' = Result("install", inst[i].cmd = "exited",
                                 IF inst[i].cmd = "exited" THEN "" ELSE "InstallFailed", None)
              /\ UNCHANGED <<proc, mgrVars, hist>>
    /\ UNCHANGED <<auxVars, now, envVars, app, PROCESS_MANAGER, svc, monVars, poolVars, wsVars, cleanupTasks,
                   bundled, private, registered, uninst>>

\* UninstallService::handle -> ServiceManager::uninstall_service up to the
\* launch of the `uninstall` command
UninstallService_handle(elevOk) ==
    /\ app = "running"
    /\ uninst.hub = "idle" /\ uninst.cmd \in {"none"} \cup Ended
    /\ IF elevOk
         THEN /\ uninst' = [hub |-> "waiting", cmd |-> "check"]
              /\ UNCHANGED reply
         ELSE /\ uninst' = IdleUninst
              /\ reply' = Result("uninstall", FALSE, "Elevation", None)
    /\ UNCHANGED <<auxVars, now, envVars, proc, app, PROCESS_MANAGER, mgrVars, svc, monVars, poolVars, wsVars,
                   cleanupTasks, bundled, private, registered, inst, hist>>

\* installer::uninstall_service, its start: nothing to do when the service
\* is not registered; a stopped service is deleted at once
uninstall_check ==
    /\ uninst.cmd = "check"
    /\ uninst' = [uninst EXCEPT !.cmd = IF ~registered THEN "exited"
                                        ELSE IF svc = "up" THEN "stop" ELSE "delete"]
    /\ UNCHANGED <<auxVars, now, envVars, proc, app, PROCESS_MANAGER, mgrVars, svc, monVars, reply, poolVars,
                   wsVars, cleanupTasks, bundled, private, registered, inst, hist>>

\* the service is stopped (stopOk = FALSE: the stop times out or systemctl
\* fails, the command bails)
uninstall_stop(stopOk) ==
    /\ uninst.cmd = "stop"
    /\ IF stopOk
         THEN /\ uninst' = [uninst EXCEPT !.cmd = "delete"]
              /\ IF svc = "up" THEN ServiceStopped ELSE ServiceUntouched
         ELSE /\ uninst' = [uninst EXCEPT !.cmd = "failed"]
              /\ ServiceUntouched
    /\ UNCHANGED <<auxVars, now, envVars, app, PROCESS_MANAGER, reply, poolVars, wsVars, cleanupTasks,
                   bundled, private, registered, inst>>

\* service.delete() / the unit file is disabled and removed (deleteOk =
\* FALSE: the call fails and the command bails, the service stays registered)
uninstall_delete(deleteOk) ==
    /\ uninst.cmd = "delete"
    /\ uninst' = [uninst EXCEPT !.cmd = IF deleteOk THEN "exited" ELSE "failed"]
    /\ registered' = IF deleteOk THEN FALSE ELSE registered
    /\ UNCHANGED <<auxVars, now, envVars, proc, app, PROCESS_MANAGER, mgrVars, svc, monVars, reply, poolVars,
                   wsVars, cleanupTasks, bundled, private, inst, hist>>

\* remove_service_binary_from_private: the result of remove_file and its
\* retries.  removeOk = FALSE: the file stays busy or may not be deleted; on
\* windows the image of the running service cannot be deleted.
remove_service_binary_from_private(removeOk) ==
    IF private = NoFile THEN [ok |-> TRUE, private |-> NoFile]
    ELSE IF removeOk /\ ~(platform = "windows" /\ svc = "up")
      THEN [ok |-> TRUE, private |-> NoFile]
      ELSE [ok |-> FALSE, private |-> private]

\* ServiceManager::uninstall_service after the command.  unix: the handler
\* waits for the command's exit and returns its error.  windows:
\* run_elevated_command polls is_service_installed() for at most 4 s and
\* returns Ok whether or not the service is gone.  Then
\* remove_service_binary_from_private.
UninstallService_done(removeOk) ==
    /\ uninst.hub = "waiting"
    /\ platform = "windows" \/ uninst.cmd \in Ended
    /\ LET failed == platform # "windows" /\ uninst.cmd = "failed"
           r == remove_service_binary_from_private(removeOk)
       IN  /\ private' = IF failed THEN private ELSE r.private
           /\ reply' = IF failed THEN Result("uninstall", FALSE, "UninstallFailed", None)
                       ELSE Result("uninstall", r.ok, IF r.ok THEN "" ELSE "RemoveFailed", None)
    /\ uninst' = IF uninst.cmd \in Ended THEN IdleUninst ELSE [uninst EXCEPT !.hub = "idle"]
    /\ UNCHANGED <<auxVars, now, envVars, proc, app, PROCESS_MANAGER, mgrVars, svc, monVars, poolVars, wsVars,
                   cleanupTasks, bundled, registered, inst, hist>>

(***************************************************************************)
(* Time.                                                                   *)
(***************************************************************************)
Horizon == MaxSteps * TimeStep
\* no timer is due, no step of the service is under way and no request is
\* at a step that only takes the pool's lock
Quiescent ==
    /\ ~MonitorDue /\ ~HealthDue /\ monPc \in {"sleep", "done"} /\ svc # "stopping"
    /\ ~(stopCall.pc = "wait" /\ platform = "windows" /\ stopCall.since + STOP_WAIT <= now)
    /\ \A t \in BagToSet(tasks) : t.pc \notin {"acquire", "flush"}

Min(a, b) == IF a <= b THEN a ELSE b
\* the next instant a timer is due: the health check's next tick, the end
\* of the monitor's sleep and the end of the windows stop's wait
NextTimer ==
    LET h == ((now \div HEALTH_CHECK_INTERVAL) + 1) * HEALTH_CHECK_INTERVAL
        m == IF svc = "up" /\ monPc = "sleep" /\ wake > now THEN Min(h, wake) ELSE h
    IN  IF stopCall.pc = "wait" /\ platform = "windows" /\ stopCall.since + STOP_WAIT > now
          THEN Min(m, stopCall.since + STOP_WAIT) ELSE m

Advance ==
    /\ Quiescent
    /\ now + TimeStep <= Horizon
    /\ now' = Min(now + TimeStep, NextTimer)
    /\ UNCHANGED <<auxVars, instVars, envVars, proc, app, PROCESS_MANAGER, mgrVars, svc, monVars, reply, poolVars,
                   wsVars, cleanupTasks, hist>>

\* the host is suspended for d seconds: no task runs, the clock jumps
SleepJumps == {SLEEP_WAKE_THRESHOLD + TimeStep}
HostSleep(d) ==
    /\ monPc \in {"sleep", "done"} /\ svc # "stopping"
    /\ now + d <= Horizon
    /\ now' = now + d
    /\ hist' = [hist EXCEPT !.q = NoTime]
    /\ UNCHANGED <<auxVars, instVars, envVars, proc, app, PROCESS_MANAGER, mgrVars, svc, monVars, reply, poolVars,
                   wsVars, cleanupTasks>>

(***************************************************************************)
(* Hub, configuration documents.  A YAML value is a tree: a scalar         *)
(* [t, s] with t the resolved type and s its text, a sequence [t, items],  *)
(* or a mapping [t, m] with m the ordered list of <<key, value>> entries   *)
(* (serde_yaml_ng::Mapping is an IndexMap keeping insertion order).        *)
(***************************************************************************)
Str(s) == [t |-> "str", s |-> s]
Num(s) == [t |-> "num", s |-> s]
Bool(b) == [t |-> "bool", s |-> IF b THEN "true" ELSE "false"]
SeqV(items) == [t |-> "seq", items |-> items]
MapV(m) == [t |-> "map", m |-> m]

\* Mapping::contains_key / get / insert / remove.  insert keeps the place of
\* an existing key and appends a new one (Insert_appending: an insert that
\* always appends); remove is swap_remove: the last entry takes the place of
\* the removed one.
Has(m, k) == \E i \in 1..Len(m) : m[i][1] = k
IndexOf(m, k) == CHOOSE i \in 1..Len(m) : m[i][1] = k
Get(m, k) == m[IndexOf(m, k)][2]
Insert_appending(m, k, v) == Append(m, <<k, v>>)
Insert(m, k, v) == IF Has(m, k) THEN [m EXCEPT ![IndexOf(m, k)] = <<k, v>>] ELSE Append(m, <<k, v>>)
Remove(m, k) ==
    IF ~Has(m, k) THEN m
    ELSE LET i == IndexOf(m, k)
             n == Len(m)
         IN  [j \in 1..(n - 1) |-> IF j = i THEN m[n] ELSE m[j]]

RECURSIVE InsertAll(_, _)
InsertAll(m, kvs) ==
    IF kvs = <<>> THEN m ELSE InsertAll(Insert(m, Head(kvs)[1], Head(kvs)[2]), Tail(kvs))

\* the type a plain (unquoted) scalar text resolves to when it is read
BoolTexts == {"true", "false"}
NumTexts == {"1", "7890", "1500", "30"}
PlainType(s) == IF s \in BoolTexts THEN "bool" ELSE IF s \in NumTexts THEN "num" ELSE "str"

\* serde_yaml_ng::to_string: a string whose plain text would be read back as
\* another type is written in quotes; every other scalar is written plain
RECURSIVE to_string(_)
to_string(v) ==
    IF v.t = "map" THEN [t |-> "map", m |-> [i \in 1..Len(v.m) |-> <<v.m[i][1], to_string(v.m[i][2])>>]]
    ELSE IF v.t = "seq" THEN [t |-> "seq", items |-> [i \in 1..Len(v.items) |-> to_string(v.items[i])]]
    ELSE [t |-> "scalar", s |-> v.s, quoted |-> v.t = "str" /\ PlainType(v.s) # "str"]

\* serde_yaml_ng::from_str on a well-formed text: a quoted scalar is a
\* string, a plain one has the type its text resolves to
RECURSIVE from_str(_)
from_str(x) ==
    IF x.t = "map" THEN [t |-> "map", m |-> [i \in 1..Len(x.m) |-> <<x.m[i][1], from_str(x.m[i][2])>>]]
    ELSE IF x.t = "seq" THEN [t |-> "seq", items |-> [i \in 1..Len(x.items) |-> from_str(x.items[i])]]
    ELSE [t |-> IF x.quoted THEN "str" ELSE PlainType(x.s), s |-> x.s]

(***************************************************************************)
(* Hub, the Injector: molecules/clash_config/injector.rs ("molecules") and *)
(* clash/config/injector.rs ("clash").  An Option is <<>> or <<x>>.        *)
(***************************************************************************)
Profiles == {"molecules", "clash"}
DefaultNameservers == SeqV(<<Str("8.8.8.8"), Str("https://doh.pub/dns-query"),
                             Str("https://dns.alidns.com/dns-query")>>)
DefaultDefaultNameservers == SeqV(<<Str("system"), Str("223.6.6.6"), Str("8.8.8.8")>>)

\* v.as_sequence().is_none_or(|s| s.is_empty())
NoEntries(v) == v.t # "seq" \/ v.items = <<>>

\* inject_dns_config: the defaults of the TUN mode, laid over an existing
\* dns mapping unless that one chose an enhanced-mode other than fake-ip
inject_dns_config(config_map, params) ==
    LET dns_config == IF Has(config_map, "dns") /\ Get(config_map, "dns").t = "map"
                        THEN Get(config_map, "dns").m ELSE <<>>
        has_mode == Has(dns_config, "enhanced-mode")
        enhanced_mode == IF has_mode /\ Get(dns_config, "enhanced-mode").t = "str"
                           THEN Get(dns_config, "enhanced-mode").s ELSE "fake-ip"
        d1 == InsertAll(dns_config, <<<<"enable", Bool(TRUE)>>, <<"ipv6", Bool(params.is_ipv6_enabled)>>>>)
        d2 == IF Has(d1, "enhanced-mode") THEN d1 ELSE Insert(d1, "enhanced-mode", Str("fake-ip"))
        d3 == IF Has(d2, "fake-ip-range") THEN d2 ELSE Insert(d2, "fake-ip-range", Str("198.18.0.1/16"))
        d4 == IF ~Has(d3, "nameserver") \/ NoEntries(Get(d3, "nameserver"))
                THEN Insert(d3, "nameserver", DefaultNameservers) ELSE d3
        d5 == IF ~Has(d4, "default-nameserver") \/ NoEntries(Get(d4, "default-nameserver"))
                THEN Insert(d4, "default-nameserver", DefaultDefaultNameservers) ELSE d4
    IN  IF enhanced_mode # "fake-ip" /\ has_mode THEN config_map
        ELSE Insert(config_map, "dns", MapV(d5))

\* inject_user_dns_override: the dns and hosts entries of the user's text
\* replace the document's; ok = FALSE when that text is not a mapping
inject_user_dns_override(config_map, params) ==
    IF params.dns_override_content = <<>> THEN [ok |-> TRUE, m |-> config_map]
    ELSE LET user_config == from_str(params.dns_override_content[1]) IN
         IF user_config.t # "map" THEN [ok |-> FALSE, m |-> config_map]
         ELSE LET c1 == IF Has(user_config.m, "dns")
                          THEN Insert(config_map, "dns", Get(user_config.m, "dns")) ELSE config_map
                  c2 == IF Has(user_config.m, "hosts")
                          THEN Insert(c1, "hosts", Get(user_config.m, "hosts")) ELSE c1
              IN  [ok |-> TRUE, m |-> c2]

\* the tun mapping both profiles build from the parameters
tun_config(params) ==
    LET t1 == <<<<"enable", Bool(params.is_tun_enabled)>>, <<"stack", Str(params.tun_stack)>>,
                <<"device", Str(params.tun_device)>>, <<"auto-route", Bool(TRUE)>>,
                <<"auto-redirect", Bool(FALSE)>>, <<"auto-detect-interface", Bool(TRUE)>>,
                <<"dns-hijack", SeqV(<<Str("any:53")>>)>>, <<"strict-route", Bool(FALSE)>>>>
        t2 == IF params.tun_route_exclude_addresses # <<>>
                THEN Append(t1, <<"route-exclude-address", SeqV(params.tun_route_exclude_addresses)>>)
                ELSE t1
    IN  MapV(t2 \o <<<<"mtu", Num(params.tun_mtu)>>, <<"disable-icmp-forwarding", Bool(FALSE)>>>>)

\* inject_runtime_params of the given profile: parse, set or remove the
\* runtime keys, serialise.  ok = FALSE: the text is not a mapping, or the
\* user's DNS text is not one.
inject_runtime_params(profile, yaml_content, params) ==
    LET config == from_str(yaml_content) IN
    IF config.t # "map" THEN [ok |-> FALSE, text |-> yaml_content]
    ELSE
    LET c0 == Insert(config.m, IF platform = "windows" THEN "external-controller-pipe"
                                                       ELSE "external-controller-unix",
                     Str("ipc"))
        ec == params.external_controller
        c1 == IF ec # <<>> /\ ec[1] # ""
                THEN LET a == Insert(c0, "external-controller", Str(ec[1])) IN
                     IF params.external_controller_secret # <<>> /\ params.external_controller_secret[1] # ""
                       THEN Insert(a, "secret", Str(params.external_controller_secret[1]))
                       ELSE Remove(a, "secret")
                ELSE Remove(Remove(c0, "external-controller"), "secret")
        c2 == InsertAll(c1, <<<<"mixed-port", Num(params.mixed_port)>>,
                              <<"bind-address", Str(IF params.is_allow_lan_enabled THEN "0.0.0.0"
                                                                                   ELSE "127.0.0.1")>>>>)
        c3 == Remove(Remove(c2, "port"), "socks-port")
        c4 == Insert(c3, "mode", Str(params.outbound_mode))
        c5 == IF profile = "molecules"
                THEN InsertAll(c4, <<<<"ipv6", Bool(params.is_ipv6_enabled)>>,
                                     <<"tcp-concurrent", Bool(TRUE)>>,
                                     <<"unified-delay", Bool(TRUE)>>,
                                     <<"find-process-mode", Str("off")>>,
                                     <<"geodata-loader", Str("memconservative")>>,
                                     <<"log-level", Str("info")>>>>)
                ELSE Insert(c4, "unified-delay", Bool(TRUE))
        c6 == IF params.is_keep_alive_enabled
                THEN IF params.keep_alive_interval # <<>>
                       THEN Insert(c5, "keep-alive-interval", Num(params.keep_alive_interval[1]))
                       ELSE c5
                ELSE Remove(c5, "keep-alive-interval")
        c7 == Insert(c6, "tun", tun_config(params))
        r == IF profile = "molecules" /\ params.is_dns_override_enabled
               THEN inject_user_dns_override(c7, params)
               ELSE IF params.is_tun_enabled
                 THEN [ok |-> TRUE, m |-> inject_dns_config(c7, params)]
                 ELSE [ok |-> TRUE, m |-> c7]
    IN  IF r.ok THEN [ok |-> TRUE, text |-> to_string(MapV(r.m))]
        ELSE [ok |-> FALSE, text |-> yaml_content]

\* the call of a configuration function: none in progress
NoJob == [fn |-> "none", input |-> <<>>, pc |-> "idle", out |-> <<>>]
\* the service's IPC server: no connection accepted
NoConns == <<>>
\* no ClashProcess::stop in progress
NoStop == [pc |-> "idle", pid |-> None, since |-> NoTime]
\* the tasks that take locks: the service's heartbeat monitor and Heartbeat
\* handler, the hub's stream handlers and the cleanup of the streaming client
LockTaskNames == {"monitor", "Heartbeat", "handle_start", "handle_stop", "cleanup_ws_client"}
\* every task at the start of its locking sequence, holding no lock
NoLockTasks == [t \in LockTaskNames |-> [pc |-> 1, held |-> {}]]
\* everything but the configuration call
restVars == <<now, envVars, proc, app, PROCESS_MANAGER, mgrVars, svc, monVars, reply, poolVars,
              wsVars, cleanupTasks, instVars, srvConn, logLines, stopCall, lockTasks, hist>>

\* the documents fed to the Injector: up to MaxDocLen entries, in any order,
\* of the keys the Injector removes, replaces or reads
DnsDocs == {MapV(<<>>), MapV(<<<<"enhanced-mode", Str("redir-host")>>>>),
            MapV(<<<<"enhanced-mode", Str("fake-ip")>>, <<"nameserver", SeqV(<<>>)>>>>),
            Str("off")}
DocEntries == {<<"port", Num("7890")>>, <<"secret", Str("1")>>, <<"proxies", SeqV(<<>>)>>}
                  \cup {<<"dns", d>> : d \in DnsDocs}
Docs == {d \in UNION {[1..n -> DocEntries] : n \in 0..MaxDocLen} :
            \A i, j \in 1..Len(d) : d[i][1] = d[j][1] => i = j}
UserDns == to_string(MapV(<<<<"dns", MapV(<<<<"enable", Bool(TRUE)>>>>)>>, <<"hosts", MapV(<<>>)>>>>))
\* RuntimeConfigParams: the fields the Injector branches on vary, the others
\* have their default
RuntimeParameters ==
    {[external_controller |-> ec, external_controller_secret |-> sec,
      is_keep_alive_enabled |-> ka[1], keep_alive_interval |-> ka[2],
      is_tun_enabled |-> tun, is_dns_override_enabled |-> dns[1], dns_override_content |-> dns[2],
      mixed_port |-> "7890", is_allow_lan_enabled |-> FALSE, outbound_mode |-> "rule",
      is_ipv6_enabled |-> FALSE, tun_stack |-> "mixed", tun_device |-> "Mihomo", tun_mtu |-> "1500",
      tun_route_exclude_addresses |-> <<>>] :
        ec \in {<<>>, <<"">>, <<"127.0.0.1:9090">>}, sec \in {<<>>, <<"1">>},
        ka \in {<<FALSE, <<>>>>, <<TRUE, <<>>>>, <<TRUE, <<"30">>>>},
        tun \in BOOLEAN,
        dns \in {<<FALSE, <<>>>>, <<TRUE, <<>>>>, <<TRUE, <<UserDns>>>>, <<TRUE, <<to_string(Str("off"))>>>>}}
InjectJobs ==
    {[fn |-> "inject", pc |-> "start", out |-> <<>>,
      input |-> [profile |-> pr, text |-> to_string(v), params |-> R]] :
        pr \in Profiles, R \in RuntimeParameters, v \in {MapV(d) : d \in Docs} \cup {Str("hello")}}

\* the Injector is applied to the input document
inject_call ==
    /\ cfgJob.fn = "inject" /\ cfgJob.pc = "start"
    /\ cfgJob' = [cfgJob EXCEPT !.pc = "once",
                     !.out = <<inject_runtime_params(cfgJob.input.profile, cfgJob.input.text,
                                                     cfgJob.input.params)>>]
    /\ UNCHANGED restVars

\* the Injector is applied to its own output, with the same parameters
inject_again ==
    /\ cfgJob.fn = "inject" /\ cfgJob.pc = "once" /\ cfgJob.out[1].ok
    /\ cfgJob' = [cfgJob EXCEPT !.pc = "twice",
                     !.out = Append(cfgJob.out,
                                    inject_runtime_params(cfgJob.input.profile, cfgJob.out[1].text,
                                                          cfgJob.input.params))]
    /\ UNCHANGED restVars

(***************************************************************************)
(* Hub, the subscription parser: molecules/subscription_management/        *)
(* parser.rs.  A text is described by what the parser looks at: whether it *)
(* is a Base64 encoding (and one of more than 50 characters), the          *)
(* indentation of its first line (lead) and of its other lines (indent),   *)
(* whether it ends in a newline, and its body: a Clash configuration       *)
(* (proxies plus groups or rules), a YAML mapping with only a proxies      *)
(* list, a list of proxy links, or something else.  For a Base64 text the  *)
(* layout is that of the decoded text.                                     *)
(***************************************************************************)
BodyKinds == {"config", "proxies_only", "links", "junk"}
Texts == [enc : {"plain", "b64"}, long : BOOLEAN, lead : {0, 2}, indent : {0, 2}, nl : BOOLEAN,
          body : [kind : BodyKinds, proxies : 0..MaxProxies]]

\* str::trim: leading and trailing whitespace of the text go; the other
\* lines keep their indentation.  A Base64 text has no whitespace around it.
trim(t) == IF t.enc = "plain" THEN [t EXCEPT !.lead = 0, !.nl = FALSE] ELSE t

is_base64(t) == t.enc = "b64" /\ t.long
\* BASE64.decode and String::from_utf8
decode(t) == [t EXCEPT !.enc = "plain"]

\* serde_yaml_ng::from_str succeeds and yields a mapping: the lines of a block
\* mapping must share one indentation
yaml_mapping(t) == t.enc = "plain" /\ t.body.kind \in {"config", "proxies_only"} /\ t.lead = t.indent
\* serde_yaml_ng::from_str succeeds: a mapping, or a text without structure,
\* which is one scalar
yaml_parse_ok(t) == yaml_mapping(t) \/ t.enc = "b64" \/ t.body.kind \in {"links", "junk"}
\* the text contains "proxies:" and one of "proxy-groups:", "rules:"
is_yaml_config(t) == yaml_parse_ok(t) /\ t.enc = "plain" /\ t.body.kind = "config"

\* parse_yaml_json_proxies: the proxies list of a YAML mapping; n = -1: Err
parse_yaml_json_proxies(t) == IF yaml_mapping(t) THEN t.body.proxies ELSE -1
\* parse_proxy_links: the lines, each trimmed, that are proxy links
parse_proxy_links(t) == IF t.enc = "plain" /\ t.body.kind = "links" THEN t.body.proxies ELSE 0

\* generate_clash_config: proxies, the groups PROXY and AUTO and the rule
\* MATCH,PROXY, serialised by serde_yaml_ng::to_string
generate_clash_config(n) ==
    [ok |-> TRUE,
     text |-> [enc |-> "plain", long |-> TRUE, lead |-> 0, indent |-> 0, nl |-> TRUE,
               body |-> [kind |-> "config", proxies |-> n]]]

ParseErr(t) == [ok |-> FALSE, text |-> t]

parse_subscription(x) ==
    LET content == trim(x)
        decoded == IF is_base64(content) THEN decode(content) ELSE content
    IN  IF is_yaml_config(decoded) THEN [ok |-> TRUE, text |-> decoded]
        ELSE IF parse_yaml_json_proxies(decoded) > 0
          THEN generate_clash_config(parse_yaml_json_proxies(decoded))
        ELSE IF parse_proxy_links(decoded) = 0 THEN ParseErr(x)
        ELSE generate_clash_config(parse_proxy_links(decoded))

\* the document a text denotes to a YAML reader
Document(t) == IF yaml_mapping(t) THEN t.body ELSE [kind |-> "none", proxies |-> 0]

ParseJobs == {[fn |-> "parse", pc |-> "start", out |-> <<>>, input |-> x] : x \in Texts}

\* the parser is applied to the subscription text
parse_call ==
    /\ cfgJob.fn = "parse" /\ cfgJob.pc = "start"
    /\ cfgJob' = [cfgJob EXCEPT !.pc = "once", !.out = <<parse_subscription(cfgJob.input)>>]
    /\ UNCHANGED restVars

\* the parser is applied to the document it returned
parse_again ==
    /\ cfgJob.fn = "parse" /\ cfgJob.pc = "once" /\ cfgJob.out[1].ok
    /\ cfgJob' = [cfgJob EXCEPT !.pc = "twice",
                     !.out = Append(cfgJob.out, parse_subscription(cfgJob.out[1].text))]
    /\ UNCHANGED restVars

(***************************************************************************)
(* Hub, the validator: clash/subscription/validator.rs.  A document is     *)
(* [syntax, root, proxies, groups]: whether the text is YAML, whether its  *)
(* root is a mapping, and the values of the proxies and proxy-groups keys  *)
(* (<<>> when the key is absent).  Such a value is [seq, items]: whether   *)
(* it is a list, and its items.  A proxy is [name, type] (each <<>> when   *)
(* absent), a group is [name, proxies] with a valid type.  The documents   *)
(* have no rules key.  An error is [category, field, what, names]: names   *)
(* is the name its message quotes; the categories are named "yaml" (YAML   *)
(* syntax), "structure", "required" (required field), "proxies" and        *)
(* "proxy-groups".                                                         *)
(***************************************************************************)
ValidationError(category, field, what, names) ==
    [category |-> category, field |-> field, what |-> what, names |-> names]
Field(key, i) == [key |-> key, i |-> i]
NotSeq == [seq |-> FALSE, items |-> <<>>]
List(items) == [seq |-> TRUE, items |-> items]

VALID_PROXY_TYPES == {"ss", "ssr", "vmess", "vless", "trojan", "hysteria", "hysteria2", "tuic",
                      "wireguard", "socks5", "http", "snell"}
SPECIAL_TARGETS == {"DIRECT", "REJECT", "REJECT-DROP", "PASS"}

\* validate_proxies, the loop over the proxies from index i on: the first
\* fault found in a proxy ends the checks of that proxy (continue)
RECURSIVE check_proxies(_, _, _, _)
check_proxies(arr, i, names, errors) ==
    IF i > Len(arr) THEN [names |-> names, errors |-> errors]
    ELSE LET p == arr[i] IN
         IF p.name = <<>>
           THEN check_proxies(arr, i + 1, names,
                    Append(errors, ValidationError("proxies", Field("proxies", i), "missing name", "")))
         ELSE IF p.name[1] = ""
           THEN check_proxies(arr, i + 1, names,
                    Append(errors, ValidationError("proxies", Field("proxies.name", i), "empty name", "")))
         ELSE LET e1 == IF p.name[1] \in names
                          THEN Append(errors, ValidationError("proxies", Field("proxies.name", i),
                                                              "duplicate name", p.name[1]))
                          ELSE errors
                  n1 == names \cup {p.name[1]}
              IN  IF p.type = <<>>
                    THEN check_proxies(arr, i + 1, n1,
                             Append(e1, ValidationError("proxies", Field("proxies", i), "missing type", "")))
                  ELSE IF p.type[1] \notin VALID_PROXY_TYPES
                    THEN check_proxies(arr, i + 1, n1,
                             Append(e1, ValidationError("proxies", Field("proxies.type", i),
                                                        "unsupported type", p.type[1])))
                  ELSE check_proxies(arr, i + 1, n1, e1)

\* validate_proxies: Ok(names) or Err(errors)
validate_proxies(root) ==
    IF root.proxies = <<>> THEN [ok |-> TRUE, names |-> {}, errors |-> <<>>]
    ELSE LET proxies == root.proxies[1] IN
         IF ~proxies.seq
           THEN [ok |-> FALSE, names |-> {},
                 errors |-> <<ValidationError("proxies", Field("proxies", 0), "not a list", "")>>]
         ELSE IF proxies.items = <<>>
           THEN [ok |-> FALSE, names |-> {},
                 errors |-> <<ValidationError("proxies", Field("proxies", 0), "empty list", "")>>]
         ELSE LET r == check_proxies(proxies.items, 1, {}, <<>>) IN
              [ok |-> r.errors = <<>>, names |-> r.names, errors |-> r.errors]

\* validate_proxy_groups, first phase: the names, a repeated one is an error
RECURSIVE collect_group_names(_, _, _, _)
collect_group_names(arr, i, names, errors) ==
    IF i > Len(arr) THEN [names |-> names, errors |-> errors]
    ELSE collect_group_names(arr, i + 1, names \cup {arr[i].name},
             IF arr[i].name \in names
               THEN Append(errors, ValidationError("proxy-groups", Field("proxy-groups.name", i),
                                                   "duplicate name", arr[i].name))
               ELSE errors)

\* the references of group i from index j on: each must be a special
\* target, a proxy or a group
RECURSIVE check_refs(_, _, _, _, _)
check_refs(refs, i, j, known, errors) ==
    IF j > Len(refs) THEN errors
    ELSE check_refs(refs, i, j + 1, known,
             IF refs[j] \notin known
               THEN Append(errors, ValidationError("proxy-groups", Field("proxy-groups.proxies", i),
                                                   "unknown reference", refs[j]))
               ELSE errors)

\* validate_proxy_groups, second phase
RECURSIVE check_groups(_, _, _, _)
check_groups(arr, i, known, errors) ==
    IF i > Len(arr) THEN errors
    ELSE check_groups(arr, i + 1, known,
             IF arr[i].proxies = <<>>
               THEN Append(errors, ValidationError("proxy-groups", Field("proxy-groups.proxies", i),
                                                   "empty list", ""))
               ELSE check_refs(arr[i].proxies, i, 1, known, errors))

\* validate_proxy_groups: Ok(names) or Err(errors)
validate_proxy_groups(root, proxy_names) ==
    IF root.groups = <<>> THEN [ok |-> TRUE, names |-> {}, errors |-> <<>>]
    ELSE LET groups == root.groups[1] IN
         IF ~groups.seq
           THEN [ok |-> FALSE, names |-> {},
                 errors |-> <<ValidationError("proxy-groups", Field("proxy-groups", 0), "not a list", "")>>]
         ELSE IF groups.items = <<>>
           THEN [ok |-> FALSE, names |-> {},
                 errors |-> <<ValidationError("proxy-groups", Field("proxy-groups", 0), "empty list", "")>>]
         ELSE LET r == collect_group_names(groups.items, 1, {}, <<>>)
                  e == check_groups(groups.items, 1, SPECIAL_TARGETS \cup proxy_names \cup r.names,
                                    r.errors)
              IN  [ok |-> e = <<>>, names |-> r.names, errors |-> e]

\* check_group_cycles: the dependency graph, a HashMap from group name to
\* its references; graph.insert replaces the entry of a name seen before
RECURSIVE build_graph(_, _, _)
build_graph(arr, i, graph) ==
    IF i > Len(arr) THEN graph
    ELSE build_graph(arr, i + 1,
             [n \in DOMAIN graph \cup {arr[i].name} |->
                 IF n = arr[i].name THEN arr[i].proxies ELSE graph[n]])

\* dfs_detect_cycle, and its loop over the neighbours nbrs of a node.  The
\* result is the return value with the two sets as the call leaves them: a
\* call that returns true leaves its node in rec_stack.
RECURSIVE dfs_detect_cycle(_, _, _, _)
RECURSIVE dfs_neighbors(_, _, _, _)
dfs_neighbors(nbrs, graph, visited, rec_stack) ==
    IF nbrs = <<>> THEN [cycle |-> FALSE, visited |-> visited, rec_stack |-> rec_stack]
    ELSE LET neighbor == Head(nbrs) IN
         IF neighbor \in DOMAIN graph
           THEN IF neighbor \notin visited
                  THEN LET r == dfs_detect_cycle(neighbor, graph, visited, rec_stack) IN
                       IF r.cycle THEN r ELSE dfs_neighbors(Tail(nbrs), graph, r.visited, r.rec_stack)
                ELSE IF neighbor \in rec_stack
                  THEN [cycle |-> TRUE, visited |-> visited, rec_stack |-> rec_stack]
                ELSE dfs_neighbors(Tail(nbrs), graph, visited, rec_stack)
           ELSE dfs_neighbors(Tail(nbrs), graph, visited, rec_stack)

dfs_detect_cycle(node, graph, visited, rec_stack) ==
    LET r == dfs_neighbors(graph[node], graph, visited \cup {node}, rec_stack \cup {node}) IN
    IF r.cycle THEN r ELSE [r EXCEPT !.rec_stack = r.rec_stack \ {node}]

\* check_group_cycles, the loop over graph.keys() in the order keys
RECURSIVE scan_keys(_, _, _, _, _)
scan_keys(keys, graph, visited, rec_stack, errors) ==
    IF keys = <<>> THEN errors
    ELSE LET node == Head(keys) IN
         IF node \in visited THEN scan_keys(Tail(keys), graph, visited, rec_stack, errors)
         ELSE LET r == dfs_detect_cycle(node, graph, visited, rec_stack) IN
              scan_keys(Tail(keys), graph, r.visited, r.rec_stack,
                  IF r.cycle
                    THEN Append(errors, ValidationError("proxy-groups", Field("proxy-groups", 0),
                                                        "cycle", node))
                    ELSE errors)

\* the graph check_group_cycles builds for a document
GraphOf(root) ==
    IF root.groups = <<>> \/ ~root.groups[1].seq THEN <<>>
    ELSE build_graph(root.groups[1].items, 1, <<>>)

\* the orders in which a HashMap's keys() may come
KeyOrders(graph) ==
    {o \in [1..Cardinality(DOMAIN graph) -> DOMAIN graph] : \A i, j \in DOMAIN o : o[i] = o[j] => i = j}

check_group_cycles(root, keys) == scan_keys(keys, GraphOf(root), {}, {}, <<>>)

\* validate_clash_config: Err(errors), or Ok when errors is empty
validate_clash_config(doc, keys) ==
    IF ~doc.syntax THEN <<ValidationError("yaml", Field("", 0), "syntax", "")>>
    ELSE IF doc.root # "map" THEN <<ValidationError("structure", Field("", 0), "root not a mapping", "")>>
    ELSE
    LET required ==
            (IF doc.proxies = <<>>
               THEN <<ValidationError("required", Field("proxies", 0), "missing", "proxies")>> ELSE <<>>)
            \o (IF doc.groups = <<>>
                  THEN <<ValidationError("required", Field("proxy-groups", 0), "missing", "proxy-groups")>>
                  ELSE <<>>)
        p == validate_proxies(doc)
        g == validate_proxy_groups(doc, IF p.ok THEN p.names ELSE {})
    IN  IF required # <<>> THEN required
        ELSE p.errors \o g.errors \o check_group_cycles(doc, keys)

\* the documents given to the validator
ProxyItems == {[name |-> n, type |-> t] : n \in {<<>>, <<"P">>}, t \in {<<>>, <<"ss">>, <<"bogus">>}}
GroupNames == {"G1", "G2"}
GroupItems == {[name |-> n, proxies |-> r] :
                  n \in GroupNames,
                  r \in UNION {[1..k -> GroupNames \cup {"P"}] : k \in 0..MaxRefs}}
ProxiesValues == {<<>>, <<NotSeq>>} \cup {<<List(s)>> : s \in UNION {[1..k -> ProxyItems] : k \in 0..MaxProxies}}
GroupsValues == {<<>>, <<NotSeq>>} \cup {<<List(s)>> : s \in UNION {[1..k -> GroupItems] : k \in 0..MaxGroups}}
ValidatorDocs ==
    {[syntax |-> TRUE, root |-> "map", proxies |-> p, groups |-> g] : p \in ProxiesValues, g \in GroupsValues}
    \cup {[syntax |-> FALSE, root |-> "other", proxies |-> <<>>, groups |-> <<>>],
          [syntax |-> TRUE, root |-> "other", proxies |-> <<>>, groups |-> <<>>]}
ValidateJobs == {[fn |-> "validate", pc |-> "start", out |-> <<>>, input |-> doc] : doc \in ValidatorDocs}

\* the validator runs on the document; keys is the order in which the
\* HashMap of check_group_cycles yields its keys in this run
validate_call(keys) ==
    /\ cfgJob.fn = "validate" /\ cfgJob.pc = "start"
    /\ cfgJob' = [cfgJob EXCEPT !.pc = "done", !.out = validate_clash_config(cfgJob.input, keys)]
    /\ UNCHANGED restVars

\* the faults of a document that the validator has a check for, each as the
\* field and kind of the error that check pushes
Violations(doc) ==
    IF ~doc.syntax THEN {[field |-> Field("", 0), what |-> "syntax"]}
    ELSE IF doc.root # "map" THEN {[field |-> Field("", 0), what |-> "root not a mapping"]}
    ELSE
        {[field |-> Field("proxies", 0), what |-> "missing"] : x \in {1} \cap {IF doc.proxies = <<>> THEN 1 ELSE 0}}
        \cup {[field |-> Field("proxy-groups", 0), what |-> "missing"] :
                 x \in {1} \cap {IF doc.groups = <<>> THEN 1 ELSE 0}}
        \cup (IF doc.proxies = <<>> THEN {}
              ELSE IF ~doc.proxies[1].seq THEN {[field |-> Field("proxies", 0), what |-> "not a list"]}
              ELSE IF doc.proxies[1].items = <<>> THEN {[field |-> Field("proxies", 0), what |-> "empty list"]}
              ELSE LET arr == doc.proxies[1].items IN
                   {[field |-> Field("proxies", i), what |-> "missing name"] :
                        i \in {j \in 1..Len(arr) : arr[j].name = <<>>}}
                   \cup {[field |-> Field("proxies", i), what |-> "missing type"] :
                        i \in {j \in 1..Len(arr) : arr[j].type = <<>>}}
                   \cup {[field |-> Field("proxies.type", i), what |-> "unsupported type"] :
                        i \in {j \in 1..Len(arr) : arr[j].type # <<>> /\ arr[j].type[1] \notin VALID_PROXY_TYPES}})
        \cup (IF doc.groups = <<>> THEN {}
              ELSE IF ~doc.groups[1].seq THEN {[field |-> Field("proxy-groups", 0), what |-> "not a list"]}
              ELSE IF doc.groups[1].items = <<>>
                THEN {[field |-> Field("proxy-groups", 0), what |-> "empty list"]}
              ELSE {})
Reported(errors) == {[field |-> errors[i].field, what |-> errors[i].what] : i \in 1..Len(errors)}

\* the references from group to group of a document, and whether they
\* contain a directed cycle
GroupEdges(doc) ==
    IF ~doc.syntax \/ doc.root # "map" \/ doc.groups = <<>> \/ ~doc.groups[1].seq THEN {}
    ELSE LET arr == doc.groups[1].items
             names == {arr[i].name : i \in 1..Len(arr)}
         IN  UNION {{<<arr[i].name, arr[i].proxies[j]>> :
                        j \in {k \in 1..Len(arr[i].proxies) : arr[i].proxies[k] \in names}} :
                    i \in 1..Len(arr)}
RECURSIVE TransitiveClosure(_)
TransitiveClosure(R) ==
    LET S == R \cup {<<x[1][1], x[2][2]>> : x \in {y \in R \X R : y[1][2] = y[2][1]}} IN
    IF S = R THEN R ELSE TransitiveClosure(S)
HasCycle(doc) == \E e \in TransitiveClosure(GroupEdges(doc)) : e[1] = e[2]

(***************************************************************************)
(* Hub, the override script executor: atoms/override_processor/            *)
(* js_executor.rs.  A script is [kind, iterations, result]: main runs      *)
(* `iterations` rounds of a loop and then returns `result` ("returns"),    *)
(* throws ("throws"), or the script defines no main ("no_main"); or main   *)
(* loops without end ("forever").  The call is [fn, input, pc, out] with   *)
(* out the rounds run so far, and at the end the Result.                   *)
(***************************************************************************)
ScriptKinds == {"returns", "throws", "no_main", "forever"}
Scripts == [kind : ScriptKinds, iterations : 0..MaxIter, result : {"config", "undefined"}]
BaseContents == {"config", "no_proxies", "not_yaml"}
ScriptJobs ==
    {[fn |-> "script", pc |-> "start", out |-> 0, input |-> [base_content |-> b, js_code |-> s]] :
        b \in BaseContents, s \in Scripts}
ApplyErr(e) == [ok |-> FALSE, err |-> e]
ApplyOk == [ok |-> TRUE, err |-> ""]

\* JsExecutor::apply up to the call of execute_js: the base configuration is
\* parsed and embedded in the wrapper around the user's script
apply_begin ==
    /\ cfgJob.fn = "script" /\ cfgJob.pc = "start"
    /\ cfgJob' = IF cfgJob.input.base_content = "not_yaml"
                   THEN [cfgJob EXCEPT !.pc = "done", !.out = ApplyErr("parse")]
                   ELSE [cfgJob EXCEPT !.pc = "eval"]
    /\ UNCHANGED restVars

\* execute_js: ctx.eval runs the script.  One step is one round of main's
\* loop, or the end of the evaluation: the value returned, or an exception
\* (thrown by main, by the wrapper when main is not a function, or by the
\* conversion of a result that is not a string).
execute_js ==
    /\ cfgJob.fn = "script" /\ cfgJob.pc = "eval"
    /\ LET s == cfgJob.input.js_code IN
        /\ s.kind # "forever"
        /\ cfgJob' = IF s.kind = "no_main" THEN [cfgJob EXCEPT !.pc = "done", !.out = ApplyErr("script")]
                     ELSE IF cfgJob.out < s.iterations THEN [cfgJob EXCEPT !.out = @ + 1]
                     ELSE IF s.kind = "throws" \/ s.result = "undefined"
                       THEN [cfgJob EXCEPT !.pc = "done", !.out = ApplyErr("script")]
                     ELSE [cfgJob EXCEPT !.pc = "convert"]
    /\ UNCHANGED restVars

\* execute_js on a main that loops without end: the evaluation goes from
\* the loop's test to its body and back.  No interrupt handler, memory
\* limit or timer is installed on the runtime.
execute_js_loop ==
    /\ cfgJob.fn = "script" /\ cfgJob.pc \in {"eval", "body"}
    /\ cfgJob.input.js_code.kind = "forever"
    /\ cfgJob' = [cfgJob EXCEPT !.pc = IF @ = "eval" THEN "body" ELSE "eval"]
    /\ UNCHANGED restVars

\* JsExecutor::apply after execute_js returned Ok: JSON to YAML
apply_finish ==
    /\ cfgJob.fn = "script" /\ cfgJob.pc = "convert"
    /\ cfgJob' = [cfgJob EXCEPT !.pc = "done", !.out = ApplyOk]
    /\ UNCHANGED restVars

(***************************************************************************)
(* Hub, one-shot requests: the retry decision and the probe of a pooled    *)
(* connection (clash/network/handlers.rs).  An error message is            *)
(* [text, code]: the description of the error and the number in its        *)
(* "(os error N)" suffix, 0 when the message has none.                     *)
(***************************************************************************)
ErrorMessage(text, code) == [text |-> text, code |-> code]
\* the texts the two predicates look for, besides "os error"
FileNotFoundZh == "file not found (zh)"
RefusedZh == "connection refused (zh)"

\* the message contains "os error <digits>": the decimal digits of its code
\* begin with those digits
ContainsOsError(msg, digits) == msg.code > 0 /\ \E k \in 0..MaxCodeDigits : msg.code \div (10 ^ k) = digits

is_ipc_not_ready_error(error_msg) ==
    \/ error_msg.text = FileNotFoundZh
    \/ ContainsOsError(error_msg, 2)
    \/ error_msg.text = RefusedZh
    \/ ContainsOsError(error_msg, 111)
    \/ ContainsOsError(error_msg, 61)
    \/ error_msg.text = "Connection refused"

should_retry_on_error(error_msg, attempt, max_retries) ==
    /\ attempt < max_retries
    /\ ~is_ipc_not_ready_error(error_msg)
    /\ \/ error_msg.code > 0
       \/ error_msg.text = FileNotFoundZh
       \/ error_msg.text = "Connection refused"
       \/ error_msg.text = "Broken pipe"

\* the errors of the pipe layer: pipe busy (Windows ERROR_PIPE_BUSY),
\* connection refused (Linux, macOS), broken pipe, file not found
PipeBusy == ErrorMessage("All pipe instances are busy.", 231)
ConnectionRefused == {ErrorMessage("Connection refused", 111), ErrorMessage("Connection refused", 61),
                      ErrorMessage(RefusedZh, 111)}
BrokenPipe == ErrorMessage("Broken pipe", 32)
FileNotFound == {ErrorMessage("No such file or directory", 2), ErrorMessage(FileNotFoundZh, 2),
                 ErrorMessage("The system cannot find the file specified.", 2)}
TransportErrors == {PipeBusy, BrokenPipe} \cup ConnectionRefused \cup FileNotFound
\* other failures of a request: the peer reset the connection, the named
\* pipe is being closed or has ended (Windows), a response that is cut short
OtherErrors == {ErrorMessage("Connection reset by peer", 104), ErrorMessage("The pipe is being closed.", 232),
                ErrorMessage("The pipe has been ended.", 109), ErrorMessage("unexpected end of response", 0)}
\* the messages of the build: a Windows build names pipe errors, with the
\* system's English or Chinese descriptions, a Unix build socket errors
RequestErrors ==
    IF platform = "windows"
      THEN {m \in TransportErrors \cup OtherErrors :
               m.code \in {231, 2, 232, 109, 0} /\ m.text # "No such file or directory"}
      ELSE {m \in TransportErrors \cup OtherErrors :
               m.code \in {111, 61, 32, 104, 0} \/ m.text = "No such file or directory"}

\* handle_ipc_request_with_retry after acquire, error_msg being the text of
\* the error if IpcClient::request_with_connection fails
request_with_connection(t, error_msg) ==
    send_request(t, should_retry_on_error(error_msg, t.attempt, MAX_RETRIES))

\* try_read on a pooled connection, the outcomes possible: nothing to read
\* (WouldBlock) or unread bytes (Data) while the peer holds the connection;
\* end of stream, an error, or bytes the peer left unread once it is gone
try_read(e) == IF proc[e.core] = "running" THEN {"WouldBlock", "Data"} ELSE {"Eof", "Error", "Data"}

\* PooledConnection::is_valid on the outcome r of its try_read
is_valid_result(r) == r \in {"Data", "WouldBlock"}

\* acquire_connection_with_retry!, one turn of its pool loop, r being the
\* outcome of the probe if the popped connection is probed
acquire_connection_with_retry(t, r) ==
    /\ app = "running" /\ t.pc = "acquire"
    /\ IF pool # <<>>
         THEN /\ r \in try_read(Head(pool))
              /\ pool' = Tail(pool)
              /\ IF (now - Head(pool).last_used) * 1000 < IDLE_TIMEOUT_MS /\ is_valid_result(r)
                   THEN /\ Move(t, [t EXCEPT !.pc = "request", !.conn = Head(pool).core])
                        /\ hist' = [hist EXCEPT !.probe = r]
                   ELSE UNCHANGED <<tasks, hist>>
              /\ UNCHANGED permits
         ELSE /\ r = "WouldBlock"
              /\ UNCHANGED <<pool, hist>>
              /\ IF permits > 0
                   THEN /\ permits' = permits - 1
                        /\ Move(t, [t EXCEPT !.pc = "connect", !.ctry = 0])
                   ELSE /\ UNCHANGED permits
                        /\ Move(t, [t EXCEPT !.pc = "permit"])
    /\ UNCHANGED <<auxVars, instVars, now, envVars, proc, app, PROCESS_MANAGER, mgrVars, svc, monVars, reply,
                   lastHc, wsVars, cleanupTasks>>

(***************************************************************************)
(* The Service's IPC server: one handle_client task per accepted           *)
(* connection.  A frame is a 4-byte length followed by a JSON body.        *)
(***************************************************************************)
\* the largest command_len handle_client accepts
MAX_COMMAND_LEN == 1024 * 1024
\* the commands a client sends here; StartClash, StopClash, GetStatus and
\* Heartbeat are answered the same way (handler, then one response frame)
IpcCommands == {"GetVersion", "GetLogs", "StreamLogs"}
\* the frames a client writes: header values at and above the limit, and a
\* body that is a serialized command or not one
CommandFrames == [len : {MAX_COMMAND_LEN, MAX_COMMAND_LEN + 1}, body : IpcCommands \cup {"garbage"}]
\* serde_json::from_slice::<IpcCommand>
from_slice(command_buf) ==
    IF command_buf \in IpcCommands THEN [ok |-> TRUE, command |-> command_buf]
    ELSE [ok |-> FALSE, command |-> "none"]
\* create_handler's closure: the response to a command
handler(command) ==
    CASE command = "GetVersion" -> "Version"
      [] command = "GetLogs" -> "Logs"
      [] command = "StreamLogs" -> "Success"
\* a connection as accepted: its task is at the first read_exact
\* (sub, rx, skipped: the log receiver's position when it subscribed, its
\* position now, and the lines it was told it skipped)
NewConn == [pc |-> "reading", peer |-> "open", inbox |-> <<>>, read |-> 0, sent |-> <<>>,
            result |-> "none", sub |-> 0, rx |-> 0, skipped |-> 0]
\* a response frame; a LogStream frame carries its line, here the line's number
Frame(type) == [type |-> type, line |-> 0]
LogStream(line) == [type |-> "LogStream", line |-> line]
\* everything but the server's connections and the log lines
hubVars == <<now, envVars, proc, app, PROCESS_MANAGER, mgrVars, svc, monVars, reply, poolVars,
             wsVars, cleanupTasks, instVars, cfgJob, stopCall, lockTasks, hist>>

\* run_unix / run_windows: accept, then tokio::spawn(handle_client)
accept ==
    /\ Len(srvConn) < MaxConns
    /\ srvConn' = Append(srvConn, NewConn)
    /\ UNCHANGED <<hubVars, logLines>>

\* the peer writes one more frame on its connection
client_write(i, frame) ==
    /\ srvConn[i].peer = "open"
    /\ srvConn[i].read + Len(srvConn[i].inbox) < MaxFrames
    /\ srvConn' = [srvConn EXCEPT ![i].inbox = Append(@, frame)]
    /\ UNCHANGED <<hubVars, logLines>>

\* the peer closes its end, once the server has read what it wrote
client_close(i) ==
    /\ srvConn[i].peer = "open" /\ srvConn[i].inbox = <<>>
    /\ srvConn' = [srvConn EXCEPT ![i].peer = "closed"]
    /\ UNCHANGED <<hubVars, logLines>>

\* handle_client: the first frame of the connection is read; a header above
\* the limit and a body that does not decode return Err with nothing
\* written; StreamLogs subscribes to the log broadcast, writes Success and
\* goes on in handle_log_stream's loop; any other command is answered with
\* one frame and the task returns, which drops the stream.
\* read_exact fails when the peer has closed before a frame arrived.
handle_client(i) ==
    /\ srvConn[i].pc = "reading"
    /\ LET c == srvConn[i] IN
       IF c.inbox = <<>>
         THEN /\ c.peer = "closed"
              /\ srvConn' = [srvConn EXCEPT ![i].pc = "done", ![i].result = "Err"]
         ELSE LET frame == Head(c.inbox)
                  taken == [c EXCEPT !.inbox = Tail(@), !.read = @ + 1]
                  decoded == from_slice(frame.body)
              IN  IF frame.len > MAX_COMMAND_LEN \/ ~decoded.ok
                    THEN srvConn' = [srvConn EXCEPT ![i] =
                             [taken EXCEPT !.pc = "done", !.result = "Err"]]
                    ELSE IF decoded.command = "StreamLogs"
                      THEN srvConn' = [srvConn EXCEPT ![i] =
                               [taken EXCEPT !.pc = "streaming", !.sub = logLines, !.rx = logLines,
                                             !.sent = Append(@, Frame("Success"))]]
                      ELSE srvConn' = [srvConn EXCEPT ![i] =
                               [taken EXCEPT !.pc = "done", !.result = "Ok",
                                             !.sent = Append(@, Frame(handler(decoded.command)))]]
    /\ UNCHANGED <<hubVars, logLines>>

\* the logger broadcasts one more line; the channel keeps the newest
\* LogCapacity lines and never waits for a receiver
log_line ==
    /\ logLines < MaxLogLines
    /\ logLines' = logLines + 1
    /\ UNCHANGED <<hubVars, srvConn>>

\* a receiver that is handed the oldest line kept without being told that
\* lines were dropped
recv_unreported(rx) ==
    IF rx + LogCapacity < logLines
      THEN [kind |-> "Ok", skipped |-> 0, rx |-> logLines - LogCapacity + 1]
      ELSE [kind |-> "Ok", skipped |-> 0, rx |-> rx + 1]

\* log_receiver.recv(): the receiver's next line is rx + 1; when the channel
\* has dropped it the receiver gets Lagged(skipped) and moves to the oldest
\* line kept; without a line to read recv() stays pending
recv(rx) ==
    IF rx + LogCapacity < logLines
      THEN [kind |-> "Lagged", skipped |-> logLines - LogCapacity - rx, rx |-> logLines - LogCapacity]
      ELSE [kind |-> "Ok", skipped |-> 0, rx |-> rx + 1]

\* one turn of handle_log_stream's loop: Ok(line) is written as a LogStream
\* frame, and the loop ends when that write fails because the peer has
\* closed; Lagged is logged and the loop goes on
handle_log_stream(i) ==
    /\ srvConn[i].pc = "streaming"
    /\ srvConn[i].rx < logLines
    /\ LET c == srvConn[i]
           r == recv(c.rx)
       IN  IF r.kind = "Lagged"
             THEN srvConn' = [srvConn EXCEPT ![i].rx = r.rx, ![i].skipped = @ + r.skipped]
             ELSE IF c.peer = "closed"
               THEN srvConn' = [srvConn EXCEPT ![i].rx = r.rx, ![i].pc = "done", ![i].result = "Ok"]
               ELSE srvConn' = [srvConn EXCEPT ![i].rx = r.rx, ![i].sent = Append(@, LogStream(r.rx))]
    /\ UNCHANGED <<hubVars, logLines>>

(***************************************************************************)
(* Hub, direct mode: the steps of a stop (process_manager.rs).             *)
(* StopClashProcess::handle holds PROCESS_MANAGER's lock from the take to  *)
(* the result, so no other handler of the process manager runs meanwhile.  *)
(***************************************************************************)
\* StopClashProcess::handle up to the wait of ClashProcess::stop:
\* manager.take(), then kill(pid, SIGTERM) on unix, CloseHandle(job_handle)
\* on windows (a job with KILL_ON_JOB_CLOSE)
stop_request ==
    /\ app = "running" /\ mode = "Direct"
    /\ stopCall.pc # "wait" /\ PROCESS_MANAGER # None
    /\ PROCESS_MANAGER' = None
    /\ stopCall' = [pc |-> "wait", pid |-> PROCESS_MANAGER, since |-> now]
    /\ UNCHANGED <<cfgJob, srvConn, logLines, lockTasks, instVars, now, envVars, proc, app, mgrVars, svc,
                   monVars, reply, poolVars, wsVars, cleanupTasks, hist>>

\* the Core being stopped goes away: it acts on SIGTERM, or the OS ends the
\* processes of the closed job.  A Core that ignores SIGTERM never takes this step.
CoreTerminates ==
    /\ stopCall.pc = "wait" /\ proc[stopCall.pid] = "running"
    /\ proc' = [proc EXCEPT ![stopCall.pid] = "exited"]
    /\ UNCHANGED <<auxVars, instVars, now, envVars, app, PROCESS_MANAGER, mgrVars, svc, monVars, reply,
                   poolVars, wsVars, cleanupTasks, hist>>

\* the end of WaitForSingleObject(process_handle, 5 s)
StopWaitDue == stopCall.pc = "wait" /\ platform = "windows" /\ stopCall.since + STOP_WAIT <= now

\* ClashProcess::stop returns and the handler sends its result.
\* unix: child.wait() returns once the child has exited, or fails.
\* windows: WaitForSingleObject returns once the process has exited or the
\* 5 s are over; both arms close the process handle and return Ok.
stop_return(outcome) ==
    /\ stopCall.pc = "wait"
    /\ IF platform = "unix"
         THEN \/ outcome = "exited" /\ proc[stopCall.pid] = "exited"
              \/ outcome = "wait_err"
         ELSE \/ outcome = "exited" /\ proc[stopCall.pid] = "exited"
              \/ outcome = "timeout" /\ proc[stopCall.pid] = "running" /\ StopWaitDue
    /\ reply' = Result("stop", outcome # "wait_err", IF outcome # "wait_err" THEN "" ELSE "StopFailed", None)
    /\ stopCall' = [stopCall EXCEPT !.pc = "done"]
    /\ UNCHANGED <<cfgJob, srvConn, logLines, lockTasks, instVars, now, envVars, proc, app, PROCESS_MANAGER,
                   mgrVars, svc, monVars, poolVars, wsVars, cleanupTasks, hist>>

(***************************************************************************)
(* Locks.  The locking sequence of each task, in program order: the         *)
(* tokio RwLocks of the service (clash_manager, last_heartbeat) and of the  *)
(* hub (WS_CLIENT, TRAFFIC_CONNECTION_ID), the tokio Mutexes of the         *)
(* streaming client (next_connection_id, connections) and the std Mutexes   *)
(* of ClashManager (child, start_time).  A guard bound with let lives to    *)
(* the end of its block, a temporary guard to the end of its statement.     *)
(***************************************************************************)
Lock(l, m) == [op |-> "acquire", lock |-> l, mode |-> m]
Unlock(l) == [op |-> "release", lock |-> l, mode |-> "none"]

\* runner.rs: the monitor's check; on a timeout manager.stop() runs under the
\* write guard of clash_manager, and so does the reset of last_heartbeat
monitor_locks ==
    << Lock("last_heartbeat", "read"), Unlock("last_heartbeat"),
       Lock("clash_manager", "write"),
       Lock("child", "mutex"), Lock("start_time", "mutex"),
       Unlock("start_time"), Unlock("child"),
       Lock("last_heartbeat", "write"), Unlock("last_heartbeat"),
       Unlock("clash_manager") >>

\* handler.rs: IpcCommand::Heartbeat
Heartbeat_locks == << Lock("last_heartbeat", "write"), Unlock("last_heartbeat") >>

\* handlers.rs: ensure_ws_client_initialized, then connect() and the store of
\* the id, all under the read guard of WS_CLIENT
handle_start_locks ==
    << Lock("WS_CLIENT", "write"), Unlock("WS_CLIENT"),
       Lock("WS_CLIENT", "read"),
       Lock("next_connection_id", "mutex"), Unlock("next_connection_id"),
       Lock("connections", "mutex"), Unlock("connections"),
       Lock("TRAFFIC_CONNECTION_ID", "write"), Unlock("TRAFFIC_CONNECTION_ID"),
       Unlock("WS_CLIENT") >>

\* handlers.rs: the id is taken in a block of its own, then disconnect()
handle_stop_locks ==
    << Lock("TRAFFIC_CONNECTION_ID", "write"), Unlock("TRAFFIC_CONNECTION_ID"),
       Lock("WS_CLIENT", "read"),
       Lock("connections", "mutex"), Unlock("connections"),
       Unlock("WS_CLIENT") >>

\* handlers.rs: disconnect_all() under the write guard of WS_CLIENT
cleanup_ws_client_locks ==
    << Lock("WS_CLIENT", "write"),
       Lock("connections", "mutex"), Unlock("connections"),
       Unlock("WS_CLIENT") >>

LockProgram(t) ==
    CASE t = "monitor" -> monitor_locks
      [] t = "Heartbeat" -> Heartbeat_locks
      [] t = "handle_start" -> handle_start_locks
      [] t = "handle_stop" -> handle_stop_locks
      [] t = "cleanup_ws_client" -> cleanup_ws_client_locks

\* the places where a task leaves its sequence early: the heartbeat is recent
\* enough, or no connection id was stored
LockBranches == {<<"monitor", 3>>, <<"handle_stop", 3>>}

\* a read guard excludes writers, every other guard excludes everyone
LockFree(t, l, m) ==
    \A u \in LockTaskNames \ {t} : \A h \in lockTasks[u].held :
        h.lock = l => (m = "read" /\ h.mode = "read")

NextPc(t) == IF lockTasks[t].pc = Len(LockProgram(t)) THEN 1 ELSE lockTasks[t].pc + 1

nonLockVars == <<now, envVars, proc, app, PROCESS_MANAGER, mgrVars, svc, monVars, reply, poolVars,
                 wsVars, cleanupTasks, instVars, cfgJob, srvConn, logLines, stopCall, hist>>

\* lock().await / read().await / write().await / lock(): waits until free
lock_acquire(t) ==
    LET s == LockProgram(t)[lockTasks[t].pc] IN
    /\ s.op = "acquire"
    /\ LockFree(t, s.lock, s.mode)
    /\ lockTasks' = [lockTasks EXCEPT ![t] =
            [pc |-> NextPc(t), held |-> @.held \cup {[lock |-> s.lock, mode |-> s.mode]}]]
    /\ UNCHANGED nonLockVars

\* the guard is dropped
lock_release(t) ==
    LET s == LockProgram(t)[lockTasks[t].pc] IN
    /\ s.op = "release"
    /\ lockTasks' = [lockTasks EXCEPT ![t] =
            [pc |-> NextPc(t), held |-> {h \in @.held : h.lock # s.lock}]]
    /\ UNCHANGED nonLockVars

\* the branch that takes no further lock
lock_branch(t) ==
    /\ <<t, lockTasks[t].pc>> \in LockBranches
    /\ lockTasks' = [lockTasks EXCEPT ![t].pc = 1]
    /\ UNCHANGED nonLockVars

(***************************************************************************)
(* Specifications.                                                         *)
(***************************************************************************)
NoCore == [p \in Pids |-> "none"]
\* era: "old" from the first failed attempt that is retried until a
\* connection is established or another attempt fails, "mixed" afterwards;
\* probe: the outcome of the probe of the pooled connection handed out last
NoHist == [pure |-> TRUE, q |-> NoTime, kills |-> 0, kfail |-> FALSE, hcDone |-> 0, hcExpired |-> FALSE,
           aborted |-> FALSE, issued |-> {}, born |-> [i \in ReqIds |-> None], resp |-> EmptyBag, sawStale |-> {},
           era |-> "none", probe |-> "none"]

\* the installer at rest: the service installed from the first release, or
\* not installed
InstallerInit(installed) ==
    /\ bundled = Release(1)
    /\ private = IF installed THEN update_service_binary(Release(1)) ELSE NoFile
    /\ registered = installed
    /\ inst = [i \in Installers |-> IdleInst]
    /\ uninst = IdleUninst

\* the state right after the hub (and, in Service mode, the service) started
StartedAux(m, pf, rn, installed, job, conns) ==
    /\ now = 0 /\ mode = m /\ platform = pf /\ runner = rn
    /\ proc = NoCore /\ app = "running"
    /\ PROCESS_MANAGER = None /\ child = None /\ start_time = NoTime
    /\ svc = IF installed THEN "up" ELSE "down"
    /\ last_heartbeat = 0 /\ last_check_time = 0 /\ wake = CHECK_INTERVAL /\ monPc = "sleep"
    /\ reply = NoReply
    /\ pool = <<>> /\ tasks = EmptyBag /\ permits = MAX_CONCURRENT_CONNECTIONS /\ lastHc = 0
    /\ WS_CLIENT = NoClient
    /\ CONNECTION_ID = [k \in Kinds |-> None]
    /\ wsPc = [k \in Kinds |-> "idle"]
    /\ wsId = [k \in Kinds |-> None]
    /\ wsSpawn = [k \in Kinds |-> NoSpawn]
    /\ cleanupTasks = 0
    /\ InstallerInit(installed)
    /\ cfgJob = job /\ srvConn = conns
    /\ logLines = 0 /\ stopCall = NoStop /\ lockTasks = NoLockTasks
    /\ hist = NoHist

\* no configuration call in progress, no connection to the service's server
StartedWith(m, pf, rn, installed) == StartedAux(m, pf, rn, installed, NoJob, NoConns)

\* the service is installed and runs when the GUI is in Service mode
Started(m, pf, rn) == StartedWith(m, pf, rn, m = "Service")

\* the state after a successful direct start of the Core, n requests just issued
DirectRunning(pf, n) ==
    /\ now = 0 /\ mode = "Direct" /\ platform = pf /\ runner = "service"
    /\ proc = [NoCore EXCEPT ![1] = "running"] /\ app = "running"
    /\ PROCESS_MANAGER = 1 /\ child = None /\ start_time = NoTime
    /\ svc = "down"
    /\ last_heartbeat = 0 /\ last_check_time = 0 /\ wake = CHECK_INTERVAL /\ monPc = "sleep"
    /\ reply = Result("start", TRUE, "", 1)
    /\ pool = <<>> /\ permits = MAX_CONCURRENT_CONNECTIONS /\ lastHc = 0
    /\ tasks = IF n = 0 THEN EmptyBag ELSE [t \in {NewTask} |-> n]
    /\ WS_CLIENT = NoClient
    /\ CONNECTION_ID = [k \in Kinds |-> None]
    /\ wsPc = [k \in Kinds |-> "idle"]
    /\ wsId = [k \in Kinds |-> None]
    /\ wsSpawn = [k \in Kinds |-> NoSpawn]
    /\ cleanupTasks = 0
    /\ InstallerInit(FALSE)
    /\ cfgJob = NoJob /\ srvConn = NoConns
    /\ logLines = 0 /\ stopCall = NoStop /\ lockTasks = NoLockTasks
    /\ hist = NoHist

\* The Supervisor in both modes, every outcome of the OS calls; time stands still.
InitSup == \E m \in {"Direct", "Service"}, pf \in {"unix", "windows"} : Started(m, pf, "service")

NextSup ==
    \/ \E spawnOk \in BOOLEAN : StartClashProcess_handle(spawnOk)
    \/ \E o \in DirectStopOutcomes : StopClashProcess_handle(o)
    \/ \E o \in DirectStopOutcomes : cleanup(o)
    \/ cleanup_process_manager
    \/ \E tw, tw2 \in {"ok", "err"}, killOk, tkOk, orphanOk, pathsOk, spawnOk \in BOOLEAN :
          StartClash_handle(tw, killOk, tkOk, orphanOk, pathsOk, spawnOk, tw2)
    \/ \E killOk, tkOk \in BOOLEAN : StopClash_handle(killOk, tkOk)
    \/ \E tw \in {"ok", "err"} : GetStatus_handle(tw)
    \/ CoreExit
    \/ cleanup_all_network_resources

SpecSup == InitSup /\ [][NextSup]_vars

\* The Supervisor with the hub's network resources, the OS calls succeeding;
\* time stands still.
InitNet == \E m \in {"Direct", "Service"} : Started(m, "unix", "service")

NextNet ==
    \/ StartClashProcess_handle(TRUE)
    \/ StopClashProcess_handle("exited")
    \/ StartClash_handle("ok", TRUE, TRUE, TRUE, TRUE, TRUE, "ok")
    \/ StopClash_handle(TRUE, TRUE)
    \/ CoreExit
    \/ NewRequest(MaxTasks)
    \/ \E t \in BagToSet(tasks) : acquire_connection(t)
    \/ \E t \in BagToSet(tasks) : connect_attempt(t)
    \/ \E t \in BagToSet(tasks), retryable \in BOOLEAN : send_request(t, retryable)
    \/ \E t \in BagToSet(tasks) : retry_flush(t)
    \/ StartStream_connect("traffic", MaxConnId)
    \/ StartStream_done("traffic")
    \/ StopStream("traffic")
    \/ StreamEnd
    \/ cleanup_all_network_resources

SpecNet == InitNet /\ [][NextNet]_vars

\* The service with its heartbeat monitor, under both runners; time advances.
InitHb == \E pf \in {"unix", "windows"}, rn \in {"service", "console"} : Started("Service", pf, rn)

NextHb ==
    \/ StartClash_handle("ok", TRUE, TRUE, TRUE, TRUE, TRUE, "ok")
    \/ Heartbeat
    \/ monitor_wake
    \/ \E killOk, tkOk \in BOOLEAN : monitor_stop(killOk, tkOk)
    \/ monitor_reset
    \/ console_monitor_wake
    \/ \E killOk, tkOk \in BOOLEAN : console_shutdown(killOk, tkOk)
    \/ Advance
    \/ \E d \in SleepJumps : HostSleep(d)

SpecHb == InitHb /\ [][NextHb]_vars

\* A burst of concurrent one-shot requests against a running Core while the
\* traffic stream is being started; time stands still.
InitBurst == DirectRunning("unix", Burst)

NextBurst ==
    \/ \E t \in BagToSet(tasks) : acquire_connection(t)
    \/ \E t \in BagToSet(tasks) : acquire_permit(t)
    \/ \E t \in BagToSet(tasks) : connect_attempt(t)
    \/ \E t \in BagToSet(tasks), retryable \in BOOLEAN : send_request(t, retryable)
    \/ StartStream_connect("traffic", MaxConnId)
    \/ StartStream_done("traffic")

SpecBurst == InitBurst /\ [][NextBurst]_vars

\* The pool over time: requests, idle expiry, the health check, the Core exiting.
InitPool == DirectRunning("unix", 0)

NextPool ==
    \/ NewRequest(MaxTasks + 1)
    \/ \E t \in BagToSet(tasks) : acquire_connection(t)
    \/ \E t \in BagToSet(tasks) : connect_attempt(t)
    \/ \E t \in BagToSet(tasks), retryable \in BOOLEAN : send_request(t, retryable)
    \/ \E t \in BagToSet(tasks) : retry_flush(t)
    \/ health_check
    \/ health_check_busy
    \/ CoreExit
    \/ Advance

SpecPool == InitPool /\ [][NextPool]_vars

\* Identified one-shot requests of the GUI against a Core that is started,
\* stopped and restarted; the GUI numbers its requests in order and sends
\* one after the other has been answered; time stands still.
InitReq == Started("Direct", "unix", "service")

NextReq ==
    \/ StartClashProcess_handle(TRUE)
    \/ StopClashProcess_handle("exited")
    \/ /\ tasks = EmptyBag
       /\ \E method \in Methods : IpcRequest_handle(Cardinality(hist.issued) + 1, method)
    \/ \E t \in BagToSet(tasks) : IpcPutRequest_acquire(t)
    \/ \E t \in BagToSet(tasks) : acquire_connection(t)
    \/ \E t \in BagToSet(tasks) : connect_attempt(t)
    \/ \E t \in BagToSet(tasks), retryable \in BOOLEAN : send_request(t, retryable)
    \/ \E t \in BagToSet(tasks) : retry_flush(t)

SpecReq == InitReq /\ [][NextReq]_vars

\* Concurrent requests of all methods against a running Core.
InitCfg == DirectRunning("unix", 0)

NextCfg ==
    \/ \E method \in Methods : IpcRequest_handle(Cardinality(hist.issued) + 1, method)
    \/ \E t \in BagToSet(tasks) : IpcPutRequest_acquire(t)
    \/ \E t \in BagToSet(tasks) : acquire_connection(t)
    \/ \E t \in BagToSet(tasks) : connect_attempt(t)
    \/ \E t \in BagToSet(tasks), retryable \in BOOLEAN : send_request(t, retryable)

SpecCfg == InitCfg /\ [][NextCfg]_vars

\* Installing, upgrading and uninstalling the service, the Core started
\* under it; every OS call of the Supervisor succeeds; time stands still.
InitInst ==
    \E pf \in {"unix", "windows"}, installed \in BOOLEAN : StartedWith("Service", pf, "service", installed)

NextInst ==
    \/ AppUpgrade
    \/ StartClash_handle("ok", TRUE, TRUE, TRUE, TRUE, TRUE, "ok")
    \/ \E i \in Installers, elevOk \in BOOLEAN : InstallService_handle(i, "ok", elevOk)
    \/ \E i \in Installers : install_check(i)
    \/ \E i \in Installers, stopOk \in BOOLEAN : install_stop(i, stopOk)
    \/ \E i \in Installers, copyOk \in BOOLEAN : install_copy(i, copyOk)
    \/ \E i \in Installers : install_restart(i)
    \/ \E i \in Installers : install_register(i)
    \/ \E i \in Installers : InstallService_done(i)

SpecInst == InitInst /\ [][NextInst]_vars

\* Uninstalling the service, the Core started under it; time stands still.
InitUninst == \E pf \in {"unix", "windows"} : Started("Service", pf, "service")

NextUninst ==
    \/ StartClash_handle("ok", TRUE, TRUE, TRUE, TRUE, TRUE, "ok")
    \/ \E elevOk \in BOOLEAN : UninstallService_handle(elevOk)
    \/ uninstall_check
    \/ \E stopOk \in BOOLEAN : uninstall_stop(stopOk)
    \/ \E deleteOk \in BOOLEAN : uninstall_delete(deleteOk)
    \/ \E removeOk \in BOOLEAN : UninstallService_done(removeOk)

SpecUninst == InitUninst /\ [][NextUninst]_vars

\* The Injector of both profiles, applied once and then to its own output.
InitInject ==
    \E pf \in {"unix", "windows"}, job \in InjectJobs :
        StartedAux("Direct", pf, "service", FALSE, job, NoConns)

NextInject ==
    \/ inject_call
    \/ inject_again

SpecInject == InitInject /\ [][NextInject]_vars

\* The subscription parser, applied once and then to its own output.
InitParse == \E job \in ParseJobs : StartedAux("Direct", "unix", "service", FALSE, job, NoConns)

NextParse ==
    \/ parse_call
    \/ parse_again

SpecParse == InitParse /\ [][NextParse]_vars

\* The validator on every document of the bounds, in every key order of its
\* HashMap.
InitValidate == \E job \in ValidateJobs : StartedAux("Direct", "unix", "service", FALSE, job, NoConns)

NextValidate == \E keys \in KeyOrders(GraphOf(cfgJob.input)) : validate_call(keys)

SpecValidate == InitValidate /\ [][NextValidate]_vars

\* The override script executor on every script of the bounds.
InitScript == \E job \in ScriptJobs : StartedAux("Direct", "unix", "service", FALSE, job, NoConns)

NextScript ==
    \/ apply_begin
    \/ execute_js
    \/ execute_js_loop
    \/ apply_finish

SpecScript == InitScript /\ [][NextScript]_vars

\* the thread that runs apply is scheduled as long as it has a step to take
SpecScriptFair == SpecScript /\ WF_vars(NextScript)

\* Concurrent one-shot requests against a Core that is stopped and started
\* again, with the text of each request error and the outcome of each
\* probe; time stands still.
InitRetry == \E pf \in {"unix", "windows"} : DirectRunning(pf, 0)

NextRetry ==
    \/ StartClashProcess_handle(TRUE)
    \/ StopClashProcess_handle("exited")
    \/ NewRequest(MaxTasks + 1)
    \/ \E t \in BagToSet(tasks), r \in {"WouldBlock", "Data", "Eof", "Error"} :
           acquire_connection_with_retry(t, r)
    \/ \E t \in BagToSet(tasks) : connect_attempt(t)
    \/ \E t \in BagToSet(tasks), error_msg \in RequestErrors : request_with_connection(t, error_msg)
    \/ \E t \in BagToSet(tasks) : retry_flush(t)

SpecRetry == InitRetry /\ [][NextRetry]_vars

\* The Service's IPC server with up to MaxConns peers, each writing up to
\* MaxFrames frames; the hub stands still.
InitIpc == \E pf \in {"unix", "windows"} : StartedAux("Service", pf, "service", TRUE, NoJob, NoConns)

NextIpc ==
    \/ accept
    \/ \E i \in DOMAIN srvConn, frame \in CommandFrames : client_write(i, frame)
    \/ \E i \in DOMAIN srvConn : client_close(i)
    \/ \E i \in DOMAIN srvConn : handle_client(i)
    \/ \E i \in DOMAIN srvConn : handle_log_stream(i)
    \/ log_line

SpecIpc == InitIpc /\ [][NextIpc]_vars

\* The streaming client under the Service: both streams started and stopped
\* in any order, the Core started, stopped and exiting, the cleanup the stop
\* handler spawns, and the receive task ending before connect has stored its
\* handle; time stands still.
InitWs == Started("Service", "unix", "service")

NextWs ==
    \/ StartClash_handle("ok", TRUE, TRUE, TRUE, TRUE, TRUE, "ok")
    \/ StopClash_handle(TRUE, TRUE)
    \/ CoreExit
    \/ \E k \in Kinds : StartStream_connect(k, MaxConnId + 1)
    \/ \E k \in Kinds : StartStream_spawn(k)
    \/ \E k \in Kinds : SpawnedTaskEnd(k)
    \/ \E k \in Kinds : StartStream_insert(k)
    \/ \E k \in Kinds : StopStream(k)
    \/ StreamEnd
    \/ cleanup_all_network_resources

SpecWs == InitWs /\ [][NextWs]_vars

\* A direct-mode Core started and stopped step by step while time advances;
\* the Core acts on the stop or ignores it.
InitStop == \E pf \in {"unix", "windows"} : DirectRunning(pf, 0)

NextStop ==
    \/ stopCall.pc # "wait" /\ StartClashProcess_handle(TRUE)
    \/ stop_request
    \/ CoreTerminates
    \/ \E o \in DirectStopOutcomes : stop_return(o)
    \/ Advance

SpecStop == InitStop /\ [][NextStop]_vars

\* The tasks of the service and of the hub that take locks, interleaved in
\* any order; a task that finished its sequence runs it again.
InitLocks == Started("Service", "unix", "service")

NextLocks ==
    \/ \E t \in LockTaskNames : lock_acquire(t)
    \/ \E t \in LockTaskNames : lock_release(t)
    \/ \E t \in LockTaskNames : lock_branch(t)

SpecLocks == InitLocks /\ [][NextLocks]_vars

\* One connection to the service's server and the logger: the client's
\* frames, the log lines broadcast, and the log stream that lags behind.
InitLog == InitIpc

NextLog ==
    \/ srvConn = NoConns /\ accept
    \/ \E i \in DOMAIN srvConn, frame \in CommandFrames : client_write(i, frame)
    \/ \E i \in DOMAIN srvConn : client_close(i)
    \/ \E i \in DOMAIN srvConn : handle_client(i)
    \/ \E i \in DOMAIN srvConn : handle_log_stream(i)
    \/ log_line

SpecLog == InitLog /\ [][NextLog]_vars

(***************************************************************************)
(* Properties of the Supervisor.                                           *)
(***************************************************************************)
\* the CoreInstance the Supervisor tracks in the configured mode
Instance == IF mode = "Direct" THEN PROCESS_MANAGER ELSE child
\* a step that is a start request reaching the Supervisor
StartStep ==
    \/ \E spawnOk \in BOOLEAN : StartClashProcess_handle(spawnOk)
    \/ /\ svc = "up"
       /\ \E tw, tw2 \in {"ok", "err"}, killOk, tkOk, orphanOk, pathsOk, spawnOk \in BOOLEAN :
             StartClash_handle(tw, killOk, tkOk, orphanOk, pathsOk, spawnOk, tw2)
\* what status reports: Direct mode has the slot, the service get_status
StatusRunning ==
    IF mode = "Direct" THEN PROCESS_MANAGER # None
                       ELSE get_status(child, start_time, proc, "ok").is_running

\* C1: a start request issued while a CoreInstance exists (its process
\* running) fails with AlreadyRunning and leaves that instance untouched:
\* the same process is still tracked and still running.
C1_StartWhileRunningRejected ==
    [][ (StartStep /\ Instance # None /\ proc[Instance] = "running")
          => /\ ~reply'.ok /\ reply'.err = "AlreadyRunning"
             /\ Instance' = Instance
             /\ proc'[Instance] = "running" ]_vars

\* C2: in every reachable state at most one Core process started by the
\* Supervisor is alive.
C2_AtMostOneCoreAlive == Cardinality(Alive) <= 1

\* C3: after a sequence of start and stop requests (and status queries) whose
\* last request is a stop, status reports not running and no Core process
\* is alive.
C3_StoppedAfterStop ==
    (hist.pure /\ reply.op = "stop") => (~StatusRunning /\ Alive = {})

\* C4: when a start creates a new CoreInstance after the previous one exited
\* or was stopped, the pool holds no connection and the streaming client no
\* session: all were torn down before.
C4_TornDownBeforeNewInstance ==
    [][ (Instance = None /\ Instance' # None)
          => (pool = <<>> /\ WS_CLIENT.connections = {}) ]_vars

\* what the caller of a request observes: its success or failure and
\* whether the Core is reported running afterwards
Observed == [ok |-> reply.ok, running |-> StatusRunning]
\* what the Direct-mode handlers let the caller observe of request op made
\* when the Core is (running) or is not running, the OS calls succeeding:
\* StartClashProcess::handle refuses when an instance exists and spawns
\* otherwise; StopClashProcess::handle succeeds either way
DirectObserved(running, op) ==
    IF op = "start" THEN [ok |-> ~running, running |-> TRUE]
                    ELSE [ok |-> TRUE, running |-> FALSE]

\* C14: with the OS calls succeeding, each start and stop request lets the
\* caller observe the same in Service mode as in Direct mode: the outcome of a
\* request made in a state where the Core is (not) running, and whether the
\* Core runs afterwards, are those of the Direct-mode handlers in both modes.
C14_SameObservationInBothModes ==
    [][ /\ (StartClashProcess_handle(TRUE) \/
            (svc = "up" /\ StartClash_handle("ok", TRUE, TRUE, TRUE, TRUE, TRUE, "ok")))
          => Observed' = DirectObserved(StatusRunning, "start")
        /\ (StopClashProcess_handle("exited") \/ (svc = "up" /\ StopClash_handle(TRUE, TRUE)))
          => Observed' = DirectObserved(StatusRunning, "stop") ]_vars

\* a step that is a stop request reaching the Supervisor
StopStep ==
    \/ \E o \in DirectStopOutcomes : StopClashProcess_handle(o)
    \/ /\ svc = "up"
       /\ \E killOk, tkOk \in BOOLEAN : StopClash_handle(killOk, tkOk)

C16_NoChildAfterCleanup == (app = "exited" /\ mode = "Direct") => Alive = {}

(***************************************************************************)
(* Properties of the heartbeat monitor.                                    *)
(***************************************************************************)
\* a step that is one wake-up of the monitor, under either runner
MonitorTick == MonitorDue /\ ~MonitorDue'
\* seconds between this wake-up and the previous one (or the monitor's start)
SinceLastWake == now - (wake - CHECK_INTERVAL)
\* seconds since the last heartbeat instant the service recorded
SinceHeartbeat == now - last_heartbeat
\* the service tracks a Core whose process is running
CoreTracked == child # None /\ proc[child] = "running"

\* C5: when a monitor tick (not one taken for a host wake-up) finds, with a
\* Core running, more than 70 s since the last heartbeat, the service goes on
\* to stop the Core and
\* stays up; the stop empties the child slot with the service up; then the
\* heartbeat instant is reset to now, the service still up.
C5_TimeoutStopsCoreOnly ==
    [][ /\ (MonitorTick /\ CoreTracked /\ SinceHeartbeat > HEARTBEAT_TIMEOUT
                        /\ SinceLastWake <= SLEEP_WAKE_THRESHOLD)
             => (svc' = "up" /\ monPc' = "stop")
        /\ (monPc = "stop" /\ monPc' # "stop")
             => (svc' = "up" /\ child' = None /\ monPc' = "reset")
        /\ (monPc = "reset" /\ monPc' # "reset")
             => (svc' = "up" /\ last_heartbeat' = now /\ monPc' = "sleep") ]_vars

\* C7: a monitor tick that comes, with a Core running, more than 60 s after
\* the previous one resets the heartbeat instant and does not stop the Core:
\* the service stays up and the child is left alone.
C7_LateTickResetsOnly ==
    [][ (MonitorTick /\ CoreTracked /\ SinceLastWake > SLEEP_WAKE_THRESHOLD)
          => /\ last_heartbeat' = now
             /\ svc' = "up" /\ monPc' = "sleep"
             /\ child' = child /\ proc' = proc ]_vars

\* the Core the service tracks has been running since hist.q with no
\* heartbeat, command, exit of the Core or host suspension since, for d
\* seconds, and the service is between two steps
QuietFor(d) == hist.q # NoTime /\ now - hist.q >= d /\ Quiescent

\* the service has stopped the Core exactly once since hist.q: one stop of
\* its own took the child and, unless the kill failed, no Core is alive;
\* status, while the service is up, reports running = false and pid = None
StoppedOnce ==
    /\ hist.kills = 1 /\ child = None
    /\ ~hist.kfail => Alive = {}
    /\ svc = "up" => LET st == get_status(child, start_time, proc, "ok")
                     IN  ~st.is_running /\ st.pid = None

DetectionBound == HEARTBEAT_TIMEOUT + CHECK_INTERVAL

C8_PoolBounded == Len(pool) <= MAX_POOL_SIZE

\* C8 witness: more requests than the pool has room for have completed, the
\* pool is full and the connection of the last one was dropped
C8_Witness == Len(pool) = MAX_POOL_SIZE /\ tasks = EmptyBag

\* the one-shot requests that are opening a new connection
Connecting == {t \in BagToSet(tasks) : t.pc = "connect"}
\* attempts to open a new connection to the Core in progress: those of the
\* one-shot requests and those of the streaming client
InFlight ==
    BagCardinality([t \in Connecting |-> tasks[t]])
      + Cardinality({k \in Kinds : wsPc[k] = "connecting"})

\* C9: at most MAX_CONCURRENT_CONNECTIONS = 20 attempts to open a new
\* connection to the Core are in progress at any instant, over all callers.
C9_InFlightBounded == InFlight <= MAX_CONCURRENT_CONNECTIONS

\* C9 (amended): at most MAX_CONCURRENT_CONNECTIONS = 20 attempts of one-shot
\* requests to open a new connection are in progress at any instant (each
\* holds a permit); the streaming client's connects are not counted.
C9_PoolConnectsBounded ==
    /\ BagCardinality([t \in Connecting |-> tasks[t]]) <= MAX_CONCURRENT_CONNECTIONS
    /\ BagCardinality([t \in Connecting |-> tasks[t]]) + permits = MAX_CONCURRENT_CONNECTIONS

\* C9 witness: every permit is taken by a connecting request and further
\* requests wait for one
C9_Witness ==
    /\ BagCardinality([t \in Connecting |-> tasks[t]]) = MAX_CONCURRENT_CONNECTIONS
    /\ \E t \in BagToSet(tasks) : t.pc = "permit"

\* age of a pooled connection at instant t, in milliseconds
AgeMs(e, t) == (t - e.last_used) * 1000

\* C10 as stated: no connection is still pooled after a health-check tick
\* that came IDLE_TIMEOUT_MS or more after its return.
C10_GoneAfterNextTick ==
    \A i \in 1..Len(pool) : AgeMs(pool[i], lastHc) < IDLE_TIMEOUT_MS

\* C10 (amended): a connection returned to the pool is handed out again only
\* while its age is below T = 35 s, and none is still pooled after a
\* health-check tick that obtained the pool's lock T or more after its return
\* (a tick that finds the lock held skips its round).
C10_GoneAfterNextUnskippedTick ==
    /\ [](\A i \in 1..Len(pool) : AgeMs(pool[i], hist.hcDone) < IDLE_TIMEOUT_MS)
    /\ [][ \A t \in BagToSet(tasks) :
             (t.pc = "acquire" /\ pool # <<>> /\ tasks' # tasks /\ acquire_connection(t))
               => AgeMs(Head(pool), now) < IDLE_TIMEOUT_MS ]_vars

\* C10 witness: a health-check tick has just removed a connection to the
\* running Core that had idled for T or longer
C10_Witness == hist.hcExpired /\ hist.hcDone = now /\ Alive # {}

(***************************************************************************)
(* Properties of the one-shot requests.                                    *)
(***************************************************************************)
\* the responses sent so far that carry request_id id
ResponsesFor(id) == {r \in BagToSet(hist.resp) : r.request_id = id}
\* how many of them, repeated sends counted
ResponseCount(id) == BagCardinality([r \in ResponsesFor(id) |-> hist.resp[r]])
\* the task of request id is still running
InProgress(id) == \E t \in BagToSet(tasks) : t.id = id

\* C11: for every one-shot request exactly one response is emitted and it
\* carries the request's request_id, whatever the outcome: no response bears
\* an id that was not issued, none is sent while the request is in progress,
\* and a request whose task has ended has exactly one.
C11_ExactlyOneResponse ==
    \A id \in ReqIds :
        /\ id \notin hist.issued => ResponseCount(id) = 0
        /\ (id \in hist.issued /\ InProgress(id)) => ResponseCount(id) = 0
        /\ (id \in hist.issued /\ ~InProgress(id)) => ResponseCount(id) = 1

\* C11 witness: three requests have ended, one with success, one failing to
\* acquire a connection, one with its request failed, each answered
C11_Witness ==
    /\ tasks = EmptyBag
    /\ \E a, b, c \in ReqIds :
         /\ \E r \in ResponsesFor(a) : r.is_successful
         /\ \E r \in ResponsesFor(b) : r.error_message = "acquire"
         /\ \E r \in ResponsesFor(c) : r.error_message = "request"

\* whether a request of this method changes the Core's configuration:
\* PUT /configs reloads it, PATCH /configs updates it
MutatesConfig(t) == t.method \in {"PUT", "PATCH"}
\* the mutating requests that have been sent to the Core and not completed
MutationsInFlight == {t \in BagToSet(tasks) : MutatesConfig(t) /\ t.pc = "request"}

\* C12: at most one request that mutates the Core's configuration is in
\* flight at any time.
C12_OneMutationInFlight ==
    BagCardinality([t \in MutationsInFlight |-> tasks[t]]) <= 1

OneShotRelease ==
    /\ \E t \in BagToSet(tasks) :
          /\ t.pc = "request"
          /\ tasks' = tasks (-) SetToBag({t})
          /\ pool' = Append(pool, [last_used |-> now, core |-> t.conn])
    /\ UNCHANGED <<WS_CLIENT, CONNECTION_ID, wsPc, wsId>>

\* C17: a streaming session's connection is never placed in the one-shot
\* pool: the pool grows only by a one-shot request releasing its own
\* connection, never in a step of the streaming client; and a Stop of a
\* stream removes its session from the client's table (its receiver task is
\* aborted and the connection dropped with it) and forgets its id, adding
\* nothing to the pool.
C17_StreamsNeverPooled ==
    [][ /\ Len(pool') > Len(pool) => OneShotRelease
        /\ \A k \in Kinds :
             (CONNECTION_ID[k] # None /\ CONNECTION_ID'[k] = None)
                => /\ \A c \in WS_CLIENT'.connections : c.id # CONNECTION_ID[k]
                   /\ pool' = pool ]_vars

\* C17 witness: a stream to the running Core was cancelled by a Stop, its
\* session is gone from the table, and the pool holds the connection a
\* one-shot request returned
C17_Witness ==
    /\ hist.aborted /\ WS_CLIENT.open /\ WS_CLIENT.connections = {}
    /\ \A k \in Kinds : CONNECTION_ID[k] = None
    /\ Alive # {} /\ pool # <<>>


(***************************************************************************)
(* Properties of the installer.                                            *)
(***************************************************************************)
\* the `install` commands past their decision and not yet at their end
Installing == {i \in Installers : inst[i].cmd \in {"stop", "copy", "restart", "first_copy", "register"}}

\* C18: an Install requested while the bundled service binary matches the
\* installed one changes nothing: no step of that request alters the
\* private copy or ends a running Core
C18_MatchingInstallChangesNothing ==
    [][\A i \in Installers :
          (inst[i].matched /\ Matches /\ uninst = IdleUninst /\ inst'[i] # inst[i])
             => (private' = private /\ Alive \subseteq Alive')]_vars

\* C19: the steps of two Install requests never interleave: at most one
\* `install` command is between its comparison and its end
C19_InstallsDoNotInterleave == Cardinality(Installing) <= 1

\* C20: the private copy of the service binary is removed only when the
\* service is no longer registered
C20_RemovedOnlyWhenUnregistered ==
    [][(private # NoFile /\ private' = NoFile) => ~registered]_vars

(***************************************************************************)
(* Properties of the configuration pipeline.                               *)
(***************************************************************************)
\* C21: the Injector is idempotent: applied to its own output with the same
\* RuntimeParameters it returns that output again, text for text, in both
\* profiles.
C21_InjectIdempotent ==
    (cfgJob.fn = "inject" /\ cfgJob.pc = "twice") => cfgJob.out[2] = cfgJob.out[1]

\* C21 witness: a document with an old port entry ahead of other entries and
\* a fake-ip dns section lacking name servers was injected twice with TUN on
C21_Witness ==
    /\ cfgJob.fn = "inject" /\ cfgJob.pc = "twice"
    /\ cfgJob.input.params.is_tun_enabled /\ ~cfgJob.input.params.is_dns_override_enabled
    /\ LET d == from_str(cfgJob.input.text).m IN
        /\ Len(d) = MaxDocLen /\ d[1][1] = "port" /\ Has(d, "dns")
        /\ Get(d, "dns").t = "map" /\ Has(Get(d, "dns").m, "nameserver")
    /\ cfgJob.out[1].text # cfgJob.input.text

\* C22: when the parser returns a configuration document, parsing that
\* output again succeeds and returns the same document.
C22_ParseIdempotent ==
    (cfgJob.fn = "parse" /\ cfgJob.pc = "twice")
        => /\ cfgJob.out[2].ok
           /\ Document(cfgJob.out[2].text) = Document(cfgJob.out[1].text)

\* C23: the validator reports every structural violation present in the
\* document in one list: each fault it has a check for is in the list it
\* returns, whatever else is wrong with the document.
C23_EveryViolationReported ==
    (cfgJob.fn = "validate" /\ cfgJob.pc = "done") => Violations(cfgJob.input) \subseteq Reported(cfgJob.out)

\* C24: the validator reports a cycle error if and only if the references
\* from group to group contain a directed cycle.
C24_CycleErrorIffCycle ==
    (cfgJob.fn = "validate" /\ cfgJob.pc = "done")
        => ((\E i \in 1..Len(cfgJob.out) : cfgJob.out[i].what = "cycle") <=> HasCycle(cfgJob.input))

\* C25: for a document whose only fault is that its two groups G1 and G2
\* reference each other, the validator returns a proxy-groups error whose
\* message names G1.
C25_MutualCycleNamesG1 ==
    (/\ cfgJob.fn = "validate" /\ cfgJob.pc = "done"
     /\ cfgJob.input.proxies = <<List(<<[name |-> <<"P">>, type |-> <<"ss">>]>>)>>
     /\ cfgJob.input.groups = <<List(<<[name |-> "G1", proxies |-> <<"G2">>],
                                       [name |-> "G2", proxies |-> <<"G1">>]>>)>>)
        => \E i \in 1..Len(cfgJob.out) :
               cfgJob.out[i].category = "proxy-groups" /\ cfgJob.out[i].names = "G1"

\* C26: the execution of an override script always ends: apply returns, with
\* the overridden configuration or with a failure.
C26_ScriptExecutionEnds == <>(cfgJob.fn = "script" /\ cfgJob.pc = "done")

(***************************************************************************)
(* Properties of the retry of one-shot requests.                           *)
(***************************************************************************)
\* C27: a request that fails with a transport-level error (pipe busy,
\* connection refused, broken pipe, file not found) before its two retries
\* are used up is retried, not answered with the failure.
C27_TransportErrorsRetried ==
    [][\A t \in BagToSet(tasks), error_msg \in TransportErrors :
          (request_with_connection(t, error_msg) /\ proc[t.conn] # "running" /\ t.attempt < MAX_RETRIES)
              => BagCardinality(tasks') = BagCardinality(tasks)]_vars

\* C28 (as stated): a retry attempt never runs on a connection that was
\* established before the failure it follows.  While era is "old" no
\* connection has been established since the one failure so far, so the
\* connection a retry attempt then holds is older than that failure.
C28_RetryNeverOnOlderConnection ==
    ~(hist.era = "old" /\ \E t \in BagToSet(tasks) : t.attempt > 0 /\ t.pc = "request")

\* C28 (amended): before each retry the whole pool is flushed: the step that
\* takes a request from its failed attempt to the next one leaves the pool
\* empty, whatever other requests released before; and a retry attempt gets
\* a pooled connection only through acquire's age test and probe.
C28_RetryFlushesWholePool ==
    [][\A t \in BagToSet(tasks) :
          /\ (t.pc = "flush" /\ tasks' = (tasks (-) SetToBag({t}))
                                             (+) SetToBag({[t EXCEPT !.pc = "acquire", !.attempt = t.attempt + 1]}))
                => pool' = <<>>
          /\ (t.pc = "acquire" /\ t.attempt > 0 /\ pool # <<>>
                /\ tasks' = (tasks (-) SetToBag({t}))
                                (+) SetToBag({[t EXCEPT !.pc = "request", !.conn = Head(pool).core]}))
                => ((now - Head(pool).last_used) * 1000 < IDLE_TIMEOUT_MS /\ is_valid_result(hist'.probe))]_vars

\* C28 witness: after the flush of a failed request another request released
\* its connection, and the retry attempt runs on that connection
C28_Witness ==
    /\ hist.era = "old" /\ pool = <<>>
    /\ \E t \in BagToSet(tasks) : t.attempt = 1 /\ t.pc = "request" /\ proc[t.conn] = "running"

\* C29: acquire hands out a pooled connection only if its age is below 35 s
\* and the probe of it returned WouldBlock.
C29_PooledOnlyIfYoungAndWouldBlock == hist.probe \in {"none", "WouldBlock"}


\* C30: every command frame the IPC server has received on a connection is
\* answered by exactly one response frame on that connection, also when
\* the frame is too large or does not decode: no connection has more
\* response frames than frames received, and a connection whose task has
\* returned has as many.
C30_OneResponsePerFrame ==
    \A i \in DOMAIN srvConn :
        /\ Len(srvConn[i].sent) <= srvConn[i].read
        /\ srvConn[i].pc = "done" => Len(srvConn[i].sent) = srvConn[i].read

\* C32: once the Core process a CoreInstance tracks has exited on its own,
\* the service's status reports not running and a start request, in either
\* mode, is not rejected as AlreadyRunning.
C32_ExitedInstanceDestroyed ==
    [][ (Instance # None /\ proc[Instance] = "exited")
          => /\ mode = "Service" => ~get_status(child, start_time, proc, "ok").is_running
             /\ StartStep => reply'.err # "AlreadyRunning" ]_vars


\* C36: a start request that fails leaves the Supervisor's state as it was:
\* the Core that was tracked and running before the request is still
\* tracked and still running after it.
C36_FailedStartChangesNothing ==
    [][ (StartStep /\ reply'.op = "start" /\ ~reply'.ok
           /\ Instance # None /\ proc[Instance] = "running")
          => /\ Instance' = Instance
             /\ start_time' = start_time
             /\ proc' = proc ]_vars


\* C37: when a stop request reports failure, the Core process it was to
\* stop is still tracked by the Supervisor: the instance is the same, so
\* status still reports it and a later stop can still reach it.
C37_FailedStopKeepsInstance ==
    [][ (StopStep /\ reply'.op = "stop" /\ ~reply'.ok
           /\ Instance # None /\ proc[Instance] = "running")
          => /\ Instance' = Instance
             /\ StatusRunning' ]_vars


\* C35: the heartbeat monitor stops the Core only if no heartbeat arrived
\* in the 70 s before the stop takes effect; a heartbeat between the
\* monitor's timeout check and its stop counts.
C35_StopOnlyWithoutRecentHeartbeat ==
    [][ (\E killOk, tkOk \in BOOLEAN : monitor_stop(killOk, tkOk))
          /\ child # None /\ proc[child] = "running" /\ proc'[child] = "exited"
          => now - last_heartbeat > HEARTBEAT_TIMEOUT ]_vars


\* the streams of kind k: the sessions of the table whose receive task runs
StreamsOf(k) == {c \in WS_CLIENT.connections : c.kind = k /\ c.task = "running"}
\* the kind other than k
OtherKind(k) == IF k = "traffic" THEN "log" ELSE "traffic"

\* C38: a Stop request for one stream never terminates the other: the
\* running streams of the other kind are the same after the step, also
\* after a cleanup of the network resources and new starts.
C38_StopLeavesOtherStream ==
    [][ \A k \in Kinds : StopStream(k) => StreamsOf(OtherKind(k))' = StreamsOf(OtherKind(k)) ]_vars

\* C39: at most one traffic stream exists at a time, and a Stop request
\* for the traffic stream leaves no traffic stream running, however many
\* Start requests preceded it.
C39_OneTrafficStreamNoneAfterStop ==
    [][ /\ Cardinality(StreamsOf("traffic"))' <= 1
        /\ StopStream("traffic") => StreamsOf("traffic")' = {} ]_vars

\* C40: every entry of the streaming client's table belongs to a receive
\* task that is still running.
C40_TableEntriesHaveRunningTask ==
    \A c \in WS_CLIENT.connections : c.task = "running"


\* C31: a stop of the Core completes within the wait budget also when the
\* Core ignores the request to terminate, and the Core is force-killed by
\* then: no stop waits longer than STOP_WAIT, and the Core of a stop that has
\* returned success is not running.
C31_StopBoundedAndKills ==
    /\ stopCall.pc = "wait" => now - stopCall.since <= STOP_WAIT
    /\ (stopCall.pc = "done" /\ reply.op = "stop" /\ reply.ok) => proc[stopCall.pid] # "running"


\* C33: no task ever holds two locks at the same time, in the Control Plane
\* or in the Service.
C33_NoTaskHoldsTwoLocks ==
    \A t \in LockTaskNames : Cardinality(lockTasks[t].held) <= 1

\* the connections whose first command was StreamLogs
StreamLogsConn(c) == c.pc = "streaming" \/ (c.pc = "done" /\ c.rx > c.sub)

\* the first frame is Success and every later frame is a LogStream frame
SuccessThenLogStream(c) ==
    /\ Len(c.sent) >= 1 /\ c.sent[1].type = "Success"
    /\ \A k \in 2..Len(c.sent) : c.sent[k].type = "LogStream"

\* C34 (as stated): on a StreamLogs connection the first frame sent is
\* Success and every later frame is a LogStream frame, one per new log line,
\* in the order the lines were produced: the k-th LogStream frame carries
\* the k-th line broadcast after the subscription.
C34_OneFramePerNewLine ==
    \A i \in DOMAIN srvConn :
        StreamLogsConn(srvConn[i]) =>
            /\ SuccessThenLogStream(srvConn[i])
            /\ \A k \in 2..Len(srvConn[i].sent) :
                   srvConn[i].sent[k].line = srvConn[i].sub + k - 1

\* C34 (amended): on a StreamLogs connection the first frame sent is
\* Success and every later frame is a LogStream frame carrying a line
\* broadcast after the subscription; the lines are sent in the order they
\* were produced, none twice; and while the stream runs every line the
\* receiver has passed was either sent or counted in a Lagged report.
C34_LinesInOrderOrReportedSkipped ==
    \A i \in DOMAIN srvConn :
        LET c == srvConn[i] IN
        StreamLogsConn(c) =>
            /\ SuccessThenLogStream(c)
            /\ \A k \in 2..Len(c.sent) : c.sub < c.sent[k].line /\ c.sent[k].line <= c.rx
            /\ \A k \in 2..(Len(c.sent) - 1) : c.sent[k].line < c.sent[k + 1].line
            /\ c.pc = "streaming" => (Len(c.sent) - 1) + c.skipped = c.rx - c.sub

\* a stream that lagged, was told so, and sent a later line
C34_Witness ==
    \E i \in DOMAIN srvConn :
        /\ srvConn[i].pc = "streaming"
        /\ srvConn[i].skipped > 0
        /\ Len(srvConn[i].sent) >= 2

=============================================================================
